---- MODULE Spec2Model ----
(***************************************************************************)
(* Model of the JIRA hierarchy streaming server                            *)
(* (src/jira_hierarchy/sse.py, server.py, jira_client.py).                 *)
(*                                                                         *)
(* One streaming request (GET /api/hierarchy/stream) is followed from the  *)
(* handler serve_hierarchy_stream through stream_hierarchy_rfe_first or    *)
(* stream_hierarchy_strat_first.  The remote store is a black box: every   *)
(* search either fails (non-200 status) or returns an arbitrary list of    *)
(* raw issues with pairwise distinct keys.  The client may disconnect at   *)
(* any time; a write to a disconnected client raises.                      *)
(*                                                                         *)
(* The JSON endpoint GET /api/reload-item (reload_item) and the functions  *)
(* of jira_client.py and data_fetcher.py are modelled as operators on a    *)
(* remote store with known content: one action is one request or one call. *)
(* ConcSpec runs two stream requests on two threads against such a store.  *)
(* LabelSpec runs two label updates (POST /api/update-labels) on two        *)
(* threads against one issue, a step for each request update_jira_labels   *)
(* sends.                                                                  *)
(***************************************************************************)
EXTENDS Integers, Sequences, FiniteSets, TLC

\* ---------------------------------------------------------------------------
\* Bounds of the model
\* ---------------------------------------------------------------------------
\* longest list of issues one search returns in the model
MaxIssues == 2
\* longest issuelinks list on a Strategy record
MaxLinks == 2

\* Python's None (an absent field, an unset local)
None == "None"

\* keys the remote store can hand out, one project per level
RfeKeys == {"R1", "R2"}
StratKeys == {"S1", "S2"}
\* the component filter of a strategy-first flow can match one more Strategy;
\* its search asks for no issuelinks (line 279)
TopStratKeys == StratKeys \cup {"S3"}
EpicKeys == {"E1", "E2"}
TaskKeys == {"T1", "T2"}
\* a key of some issue that is in none of the four projects above
ForeignKey == "X1"

\* ---------------------------------------------------------------------------
\* Raw records returned by the store
\* ---------------------------------------------------------------------------
\* sequences over S of length at most n
SeqsUpTo(S, n) == UNION {[1..k -> S] : k \in 0..n}

\* one entry of fields.issuelinks: JIRA sets exactly one of the two sides; the
\* other issue is a Request, in either direction, or some foreign issue
IssueLinks ==
    {[inwardIssue |-> k, outwardIssue |-> None] : k \in RfeKeys}
    \cup {[inwardIssue |-> None, outwardIssue |-> k] : k \in RfeKeys \cup {ForeignKey}}

\* the values of fields.issuelinks a Strategy can carry
LinkLists == SeqsUpTo(IssueLinks, MaxLinks)
\* the values of fields.customfield_12313140 (Parent Link) an Epic can carry
ParentLinks == StratKeys \cup {ForeignKey, None}
\* the values of fields.customfield_12311140 (Epic Link) a Task can carry; the
\* key of an Epic the search did not return is a key outside the Epic list
EpicLinks == EpicKeys \cup {None}

\* a raw record of a level: its key and the one field the flow reads besides
\* (none for a Request)
RawIssue(level, k, x) ==
    IF level = "rfe" THEN [key |-> k]
    ELSE IF level = "strat" THEN [key |-> k, issuelinks |-> x]
    ELSE IF level = "epic" THEN [key |-> k, parent_link |-> x]
    ELSE [key |-> k, epic_link |-> x]

\* the key sequences a search over the keys K may return: at most MaxIssues
\* records, no key twice (keys are unique in the store)
KeySeqs(K) ==
    {q \in SeqsUpTo(K, MaxIssues) : \A a, b \in 1..Len(q) : a # b => q[a] # q[b]}

\* the answer with keys ks and field values xs
Answer(level, ks, xs) == [n \in 1..Len(ks) |-> RawIssue(level, ks[n], xs[n])]

\* ---------------------------------------------------------------------------
\* Pure helpers of the stream functions
\* ---------------------------------------------------------------------------
\* the keys of a list of issues, in order (rfe_keys, line 78)
KeysOf(s) == [n \in 1..Len(s) |-> s[n].key]

\* x in list
InList(x, s) == \E n \in 1..Len(s) : s[n] = x

\* the link scan of lines 100-114: the first link, in list order, whose inward
\* key (tested first) or outward key is in rfe_keys gives found_rfe
RECURSIVE ScanLinks(_, _, _)
ScanLinks(links, rfe_keys, n) ==
    IF n > Len(links) THEN None
    ELSE IF InList(links[n].inwardIssue, rfe_keys) THEN links[n].inwardIssue
    ELSE IF InList(links[n].outwardIssue, rfe_keys) THEN links[n].outwardIssue
    ELSE ScanLinks(links, rfe_keys, n + 1)

\* a plausible slip: the scan keeps going and the last match wins
RECURSIVE ScanLinksLast(_, _, _)
ScanLinksLast(links, rfe_keys, n) ==
    IF n > Len(links) THEN None
    ELSE LET rest == ScanLinksLast(links, rfe_keys, n + 1)
             here == IF InList(links[n].inwardIssue, rfe_keys) THEN links[n].inwardIssue
                     ELSE IF InList(links[n].outwardIssue, rfe_keys) THEN links[n].outwardIssue
                     ELSE None
         IN IF rest # None THEN rest ELSE here

FindRfeLast(links, rfe_keys) == ScanLinksLast(links, rfe_keys, 1)

\* a plausible slip: the first link is taken without the membership test
FindRfeNoMembership(links, rfe_keys) ==
    IF links = <<>> THEN None
    ELSE IF links[1].inwardIssue # None THEN links[1].inwardIssue
    ELSE links[1].outwardIssue

FindRfe(links, rfe_keys) == ScanLinks(links, rfe_keys, 1)

\* a dict (insertion ordered) as a list of [k, v] entries; v is a list of keys
DictHas(d, k) == \E n \in 1..Len(d) : d[n].k = k

\* d.setdefault(k, []).append(x)   (lines 117-119, 161-163, 211-213)
DictAppend(d, k, x) ==
    IF DictHas(d, k)
    THEN [n \in 1..Len(d) |-> IF d[n].k = k THEN [d[n] EXCEPT !.v = Append(@, x)] ELSE d[n]]
    ELSE Append(d, [k |-> k, v |-> <<x>>])

\* the key of the first dict entry whose list holds child, else None
\* (lines 167-171, 219-227, 375-379)
RECURSIVE ScanDict(_, _, _)
ScanDict(d, child, n) ==
    IF n > Len(d) THEN None
    ELSE IF InList(child, d[n].v) THEN d[n].k
    ELSE ScanDict(d, child, n + 1)

\* a plausible slip: the first entry is taken without looking for the child
ParentOfFirstEntry(d, child) == IF d = <<>> THEN None ELSE d[1].k

ParentOf(d, child) == ScanDict(d, child, 1)

\* the membership test on a parent-reference field: "if parent_link:" and
\* "if parent_link in strat_keys_list:" (lines 159-160, 209-210, 327-328, 367-368)
\* a plausible slip: the membership test is left out
LinkedNoMembership(parent_link, parent_keys) == parent_link # None

Linked(parent_link, parent_keys) == parent_link # None /\ InList(parent_link, parent_keys)

\* an orphan count of lines 249-251 and 400-401
\* a plausible slip: the operands are swapped
OrphanedSwapped(n_fetched, total) == total - n_fetched

Orphaned(n_fetched, total) == n_fetched - total

\* a Strategy answer made of one Strategy whose only link is an outward
\* reference to a key of rfe_keys and one Strategy without links
OneLinkedOneBare(strats, rfe_keys) ==
    /\ Len(strats) = 2
    /\ \E a, b \in 1..2 :
        /\ a # b
        /\ Len(strats[a].issuelinks) = 1
        /\ strats[a].issuelinks[1].inwardIssue = None
        /\ InList(strats[a].issuelinks[1].outwardIssue, rfe_keys)
        /\ strats[b].issuelinks = <<>>

\* ---------------------------------------------------------------------------
\* Events written to the client
\* ---------------------------------------------------------------------------
Ev(type, key, rk, sk, ek) ==
    [type |-> type, key |-> key, rfe_key |-> rk, strat_key |-> sk, epic_key |-> ek,
     totals |-> <<>>]

ProgressEv(message) == Ev("progress", message, None, None, None)

\* a plausible slip: the failure is reported under a non-terminal event name
ErrorEvAsProgress == Ev("progress", "error", None, None, None)

ErrorEv == Ev("error", None, None, None, None)

\* a plausible slip: two totals change places
CompleteEvSwapped(r, s, e, t) ==
    [type |-> "complete", key |-> None, rfe_key |-> None, strat_key |-> None,
     epic_key |-> None, totals |-> <<r, e, s, t>>]

\* the complete event: totals = <<total_rfes, total_strats, total_epics, total_tasks>>
CompleteEv(r, s, e, t) ==
    [type |-> "complete", key |-> None, rfe_key |-> None, strat_key |-> None,
     epic_key |-> None, totals |-> <<r, s, e, t>>]

\* send_json(data, status): the body is {'error': ..} or {'success': True,
\* 'data': ..}; data is a list of no or one item
SendJson(status, error, data) == [status |-> status, error |-> error, data |-> data]

\* ---------------------------------------------------------------------------
\* State of one streaming request
\* ---------------------------------------------------------------------------
\* A raw search result is read only by the for loop over it and by len(); the
\* state keeps the part of the list the running loop has not reached yet (todo)
\* and the length of each result.
VARIABLES
    pc,             \* position of the handler thread (source line of the next step)
    mode,           \* top_level of the request: "rfe" or "strat"
    connected,      \* the client still reads the response
    write_failed,   \* a wfile.write of this flow has raised
    events,         \* the events written to wfile so far, in order
    searches,       \* the levels run_jira_query was called for, in order
    todo,           \* records the running for loop has still to visit
    rfes,           \* result of fetch_rfes
    len_strat_issues,
    len_epic_issues,
    len_task_issues,
    strat_keys_list,
    epic_keys_list,
    strats_by_rfe,
    epics_by_strat,
    tasks_by_epic,
    total_rfes,
    total_strats,
    total_epics,
    total_tasks,
    orphaned,       \* <<orphaned_strats, orphaned_epics, orphaned_tasks>> once computed
    two_one_seen,   \* observer: the store answered the request-first searches with two
                    \* Requests, then with one Strategy whose only link is an outward
                    \* reference to one of them and one Strategy without links
    \* --- a request to one of the JSON endpoints (no stream) ---
    request,        \* the request being handled, with the environment it runs in
    store,          \* the remote store while the request is handled
    http,           \* the HTTP requests sent to the remote store for it, in order
    response,       \* the JSON response written: [status, body]
    outcome,        \* what a function called on its own returned or raised
    first_response, \* the response to the same request when it was made before
    \* --- two requests served by two threads (ThreadingHTTPServer) ---
    remote,         \* the remote store when it is known: its issues, the failing searches
    other,          \* the locals and the connection of the thread that is not running
    solo,           \* what the flow produced when it ran with no other flow beside it
    phase,          \* "single": one request; "solo", then "both": requests in parallel
    labels,         \* the labels field of the issue two label updates are made on
    updaters        \* the two threads running handle_update_labels: their locals

io == <<connected, write_failed, events>>
fetched == <<rfes, len_strat_issues, len_epic_issues, len_task_issues, two_one_seen>>
key_lists == <<strat_keys_list, epic_keys_list>>
dicts == <<strats_by_rfe, epics_by_strat, tasks_by_epic>>
totals == <<total_rfes, total_strats, total_epics, total_tasks>>
\* the locals of one stream flow and its connection
flow == <<pc, mode, io, searches, todo, fetched, key_lists, dicts, totals, orphaned>>
\* the state of a request to a JSON endpoint
service == <<request, store, http, response, outcome, first_response>>
\* everything a step of a stream flow leaves alone
\* the store and the second thread of the concurrent runs
threads == <<remote, other, solo, phase, labels, updaters>>
outside == <<service, threads>>
vars == <<flow, outside>>

\* the values of top_level the viewer sends
TopLevels == {"rfe", "strat"}

\* a store the model knows nothing about: a search may get any answer
BlackBox == [pinned |-> FALSE, failing |-> {}, issues |-> <<>>]

\* the locals of a flow that has not started, on an open connection
Fresh ==
    [pc |-> "idle", mode |-> None, connected |-> TRUE, write_failed |-> FALSE,
     events |-> <<>>, searches |-> <<>>, todo |-> <<>>, rfes |-> <<>>,
     len_strat_issues |-> 0, len_epic_issues |-> 0, len_task_issues |-> 0,
     strat_keys_list |-> <<>>, epic_keys_list |-> <<>>, strats_by_rfe |-> <<>>,
     epics_by_strat |-> <<>>, tasks_by_epic |-> <<>>, total_rfes |-> 0,
     total_strats |-> 0, total_epics |-> 0, total_tasks |-> 0, orphaned |-> None,
     two_one_seen |-> FALSE]

\* no flow has run alone yet
NoSolo == [mode |-> None, events |-> <<>>]

\* no request has been received
Idle ==
    /\ pc = "idle"
    /\ mode = None
    /\ connected = TRUE
    /\ write_failed = FALSE
    /\ events = <<>>
    /\ searches = <<>>
    /\ todo = <<>>
    /\ rfes = <<>>
    /\ len_strat_issues = 0
    /\ len_epic_issues = 0
    /\ len_task_issues = 0
    /\ strat_keys_list = <<>>
    /\ epic_keys_list = <<>>
    /\ strats_by_rfe = <<>>
    /\ epics_by_strat = <<>>
    /\ tasks_by_epic = <<>>
    /\ total_rfes = 0
    /\ total_strats = 0
    /\ total_epics = 0
    /\ total_tasks = 0
    /\ orphaned = None
    /\ two_one_seen = FALSE
    /\ request = None
    /\ store = None
    /\ http = <<>>
    /\ response = SendJson(0, None, <<>>)
    /\ outcome = [raised |-> FALSE, error |-> None, value |-> None]
    /\ first_response = SendJson(0, None, <<>>)
    /\ other = Fresh
    /\ solo = NoSolo

\* one request against a store of which nothing is known
\* the locals of a thread that has not received its label update yet
Waiting ==
    [pc |-> "idle", action |-> None, label |-> None, current_labels |-> <<>>,
     response |-> SendJson(0, None, <<>>)]

Init ==
    /\ Idle
    /\ remote = BlackBox
    /\ phase = "single"
    /\ labels = <<>>
    /\ updaters = <<Waiting, Waiting>>

\* a plausible slip: the failed write is caught and the flow goes on
SendIgnoresFailure(ev, next) ==
    /\ events' = IF connected THEN Append(events, ev) ELSE events
    /\ write_failed' = (write_failed \/ ~connected)
    /\ pc' = next
    /\ UNCHANGED connected

\* send_sse_event: the event reaches wfile, or the write raises and control
\* passes to the except clause of serve_hierarchy_stream
Send(ev, next) ==
    /\ events' = IF connected THEN Append(events, ev) ELSE events
    /\ write_failed' = (write_failed \/ ~connected)
    /\ pc' = IF connected THEN next ELSE "except"
    /\ UNCHANGED connected

\* the loop body ended without a write: on to the next record
Skip(next) ==
    /\ pc' = next
    /\ todo' = Tail(todo)
    /\ UNCHANGED io

\* the issues of one level a known store answers the flow's search with, in
\* its order: the Requests of the component; the Strategies linked to a key of
\* rfe_keys (lines 79-84) or, strategy-first, those of the component (273-278);
\* the Epics whose Parent Link is in strat_keys_list (140-145, 309-314); the
\* Tasks whose Epic Link is in epic_keys_list (191-195, 350-354)
PinnedAt(level) ==
    SelectSeq(remote.issues,
              LAMBDA i : /\ i.level = level
                         /\ \/ level = "rfe"
                            \/ level = "strat" /\ (mode = "strat" \/ InList(i.parent, KeysOf(rfes)))
                            \/ level = "epic" /\ InList(i.parent, strat_keys_list)
                            \/ level = "task" /\ InList(i.parent, epic_keys_list))

\* the field a flow reads on a raw record of a known store: the clone link of a
\* Strategy (not asked for by the strategy-first flow), the Parent Link of an
\* Epic, the Epic Link of a Task
PinnedField(i) ==
    IF i.level = "rfe" THEN None
    ELSE IF i.level = "strat"
    THEN IF mode = "strat" THEN <<>>
         ELSE <<[inwardIssue |-> i.parent, outwardIssue |-> None]>>
    ELSE i.parent

\* whether the search of a level can fail
CanFail(level) == ~remote.pinned \/ level \in remote.failing

\* the key lists the search of a level can return: any, or the known store's
AnswerKeys(level, K) ==
    IF ~remote.pinned THEN KeySeqs(K)
    ELSE IF level \in remote.failing THEN {}
    ELSE {KeysOf(PinnedAt(level))}

\* the field values that can come with the keys ks
AnswerFields(level, ks, X) ==
    IF ~remote.pinned THEN [1..Len(ks) -> X]
    ELSE {[n \in 1..Len(ks) |-> PinnedField(PinnedAt(level)[n])]}

\* a plausible slip: a failed search is swallowed and read as an empty answer
SearchSwallowsFailure(level, K, X, if_empty, if_some) ==
    \/ /\ searches' = Append(searches, [level |-> level, ok |-> FALSE, keys |-> <<>>])
       /\ pc' = if_empty
       /\ todo' = <<>>
    \/ \E ks \in KeySeqs(K) :
         \E xs \in [1..Len(ks) -> X] :
            /\ searches' = Append(searches, [level |-> level, ok |-> TRUE, keys |-> ks])
            /\ todo' = Answer(level, ks, xs)
            /\ pc' = IF ks = <<>> THEN if_empty ELSE if_some

\* a plausible slip: the answer is walked back to front
SearchReversed(level, K, X, if_empty, if_some) ==
    \/ /\ searches' = Append(searches, [level |-> level, ok |-> FALSE, keys |-> <<>>])
       /\ pc' = "except"
       /\ UNCHANGED todo
    \/ \E ks \in KeySeqs(K) :
         \E xs \in [1..Len(ks) -> X] :
            /\ searches' = Append(searches, [level |-> level, ok |-> TRUE, keys |-> ks])
            /\ todo' = [n \in 1..Len(ks) |-> Answer(level, ks, xs)[Len(ks) + 1 - n]]
            /\ pc' = IF ks = <<>> THEN if_empty ELSE if_some

\* run_jira_query for one level: the call is made, then either the store
\* answers with a non-200 status (ValueError) or with a list of issues, and the
\* caller goes on to its loop (if_some) or past it (if_empty)
\* (jira_client.py lines 33-42).  searches records the call and its answer.
Search(level, K, X, if_empty, if_some) ==
    \/ /\ CanFail(level)
       /\ searches' = Append(searches, [level |-> level, ok |-> FALSE, keys |-> <<>>])
       /\ pc' = "except"
       /\ UNCHANGED todo
    \/ \E ks \in AnswerKeys(level, K) :
         \E xs \in AnswerFields(level, ks, X) :
            /\ searches' = Append(searches, [level |-> level, ok |-> TRUE, keys |-> ks])
            /\ todo' = Answer(level, ks, xs)
            /\ pc' = IF ks = <<>> THEN if_empty ELSE if_some

\* the client closes the connection while the flow runs
Disconnect ==
    /\ connected
    /\ mode \in TopLevels
    /\ pc \notin {"idle", "done", "rejected"}
    /\ connected' = FALSE
    /\ UNCHANGED <<outside, pc, mode, write_failed, events, searches, todo, fetched, key_lists,
                   dicts, totals, orphaned>>

\* serve_hierarchy_stream without a usable token: a 400 JSON answer, no stream
RejectNoPat ==
    /\ pc = "idle"
    /\ pc' = "rejected"
    /\ response' = SendJson(400, "Personal Access Token not provided", <<>>)
    /\ UNCHANGED <<threads, request, store, http, outcome, first_response, mode, io, searches, todo,
                   fetched, key_lists, dicts, totals, orphaned>>

\* a plausible slip: the dispatch of stream_hierarchy never takes the strat branch
StartIgnoresTopLevel ==
    /\ pc = "idle"
    /\ \E top_level \in TopLevels :
        /\ mode' = top_level
        /\ pc' = "rf58"
    /\ UNCHANGED <<outside, io, searches, todo, fetched, key_lists, dicts, totals, orphaned>>

\* serve_hierarchy_stream with a token: headers, then stream_hierarchy dispatches
Start ==
    /\ pc = "idle"
    /\ \E top_level \in TopLevels :
        /\ mode' = top_level
        /\ pc' = IF top_level = "strat" THEN "sf272" ELSE "rf58"
    /\ UNCHANGED <<outside, io, searches, todo, fetched, key_lists, dicts, totals, orphaned>>

\* the except clause of serve_hierarchy_stream: one error event, then the end
Except ==
    /\ pc = "except"
    /\ events' = IF connected THEN Append(events, ErrorEv) ELSE events
    /\ write_failed' = (write_failed \/ ~connected)
    /\ pc' = "done"
    /\ UNCHANGED <<outside, mode, connected, searches, todo, fetched, key_lists, dicts, totals,
                   orphaned>>

\* ---------------------------------------------------------------------------
\* stream_hierarchy_rfe_first
\* ---------------------------------------------------------------------------
RfProgressRfes ==
    /\ pc = "rf58"
    /\ Send(ProgressEv("Loading RFEs..."), "rf59")
    /\ UNCHANGED <<outside, mode, searches, todo, fetched, key_lists, dicts, totals, orphaned>>

RfFetchRfes ==
    /\ pc = "rf59"
    /\ Search("rfe", RfeKeys, {None}, "rf63", "rf70")
    /\ rfes' = todo'
    /\ UNCHANGED <<outside, mode, io, len_strat_issues, len_epic_issues, len_task_issues,
                   two_one_seen, key_lists, dicts, totals, orphaned>>

RfCompleteEmpty ==
    /\ pc = "rf63"
    /\ Send(CompleteEv(0, 0, 0, 0), "done")
    /\ UNCHANGED <<outside, mode, searches, todo, fetched, key_lists, dicts, totals, orphaned>>

\* a plausible slip: the loop writes the first record of the list at every turn
RfStreamRfeFirstAgain ==
    /\ pc = "rf70"
    /\ Send(Ev("rfe", rfes[1].key, None, None, None),
            IF Len(todo) = 1 THEN "rf77" ELSE "rf70")
    /\ total_rfes' = IF connected THEN total_rfes + 1 ELSE total_rfes
    /\ todo' = Tail(todo)
    /\ UNCHANGED <<outside, mode, searches, fetched, key_lists, dicts, total_strats, total_epics,
                   total_tasks, orphaned>>

RfStreamRfe ==
    /\ pc = "rf70"
    /\ Send(Ev("rfe", Head(todo).key, None, None, None),
            IF Len(todo) = 1 THEN "rf77" ELSE "rf70")
    /\ total_rfes' = IF connected THEN total_rfes + 1 ELSE total_rfes
    /\ todo' = Tail(todo)
    /\ UNCHANGED <<outside, mode, searches, fetched, key_lists, dicts, total_strats, total_epics,
                   total_tasks, orphaned>>

\* a plausible slip: the Strategy level starts without its progress event
RfProgressStratsSilent ==
    /\ pc = "rf77"
    /\ pc' = "rf86"
    /\ UNCHANGED <<outside, mode, io, searches, todo, fetched, key_lists, dicts, totals, orphaned>>

RfProgressStrats ==
    /\ pc = "rf77"
    /\ Send(ProgressEv("Loading STRATs..."), "rf86")
    /\ UNCHANGED <<outside, mode, searches, todo, fetched, key_lists, dicts, totals, orphaned>>

RfSearchStrats ==
    /\ pc = "rf86"
    /\ Search("strat", StratKeys, LinkLists, "rf242", "rf92")
    /\ len_strat_issues' = Len(todo')
    /\ two_one_seen' = (pc' = "rf92" /\ Len(rfes) = 2 /\ OneLinkedOneBare(todo', KeysOf(rfes)))
    /\ UNCHANGED <<outside, mode, io, rfes, len_epic_issues, len_task_issues, key_lists, dicts,
                   totals, orphaned>>

\* a plausible slip: the Epic level is entered only when a Strategy was linked
RfLinkStratLinkedOnly ==
    /\ pc = "rf92"
    /\ LET strat == Head(todo)
           found_rfe == FindRfe(strat.issuelinks, KeysOf(rfes))
           any_linked == strats_by_rfe # <<>> \/ found_rfe # None
           next == IF Len(todo) > 1 THEN "rf92" ELSE IF any_linked THEN "rf138" ELSE "rf242"
       IN /\ strat_keys_list' = Append(strat_keys_list, strat.key)
          /\ IF found_rfe # None
             THEN /\ strats_by_rfe' = DictAppend(strats_by_rfe, found_rfe, strat.key)
                  /\ Send(Ev("strat", strat.key, found_rfe, None, None), next)
                  /\ total_strats' = IF connected THEN total_strats + 1 ELSE total_strats
                  /\ todo' = Tail(todo)
             ELSE /\ Skip(next)
                  /\ UNCHANGED <<strats_by_rfe, total_strats>>
    /\ UNCHANGED <<outside, mode, searches, fetched, epic_keys_list, epics_by_strat, tasks_by_epic,
                   total_rfes, total_epics, total_tasks, orphaned>>

RfLinkStrat ==
    /\ pc = "rf92"
    /\ LET strat == Head(todo)
           found_rfe == FindRfe(strat.issuelinks, KeysOf(rfes))
           next == IF Len(todo) = 1 THEN "rf138" ELSE "rf92"
       IN /\ strat_keys_list' = Append(strat_keys_list, strat.key)
          /\ IF found_rfe # None
             THEN /\ strats_by_rfe' = DictAppend(strats_by_rfe, found_rfe, strat.key)
                  /\ Send(Ev("strat", strat.key, found_rfe, None, None), next)
                  /\ total_strats' = IF connected THEN total_strats + 1 ELSE total_strats
                  /\ todo' = Tail(todo)
             ELSE /\ Skip(next)
                  /\ UNCHANGED <<strats_by_rfe, total_strats>>
    /\ UNCHANGED <<outside, mode, searches, fetched, epic_keys_list, epics_by_strat, tasks_by_epic,
                   total_rfes, total_epics, total_tasks, orphaned>>

RfProgressEpics ==
    /\ pc = "rf138"
    /\ Send(ProgressEv("Loading Epics..."), "rf148")
    /\ UNCHANGED <<outside, mode, searches, todo, fetched, key_lists, dicts, totals, orphaned>>

\* a plausible slip: one query per parent, the search is made once for every
\* key of strat_keys_list
RfSearchEpicsPerStrat ==
    /\ pc = "rf148"
    /\ LET made == Len(SelectSeq(searches, LAMBDA q : q.level = "epic"))
           more == made + 1 < Len(strat_keys_list)
       IN Search("epic", EpicKeys, ParentLinks,
                 IF more THEN "rf148" ELSE "rf242", IF more THEN "rf148" ELSE "rf151")
    /\ len_epic_issues' = Len(todo')
    /\ UNCHANGED <<outside, mode, io, rfes, len_strat_issues, len_task_issues, two_one_seen, key_lists,
                   dicts, totals, orphaned>>

RfSearchEpics ==
    /\ pc = "rf148"
    /\ Search("epic", EpicKeys, ParentLinks, "rf242", "rf151")
    /\ len_epic_issues' = Len(todo')
    /\ UNCHANGED <<outside, mode, io, rfes, len_strat_issues, len_task_issues, two_one_seen, key_lists,
                   dicts, totals, orphaned>>

RfLinkEpic ==
    /\ pc = "rf151"
    /\ LET epic == Head(todo)
           parent_link == epic.parent_link
           rfe_key == ParentOf(strats_by_rfe, parent_link)
           next == IF Len(todo) = 1 THEN "rf190" ELSE "rf151"
       IN /\ epic_keys_list' = Append(epic_keys_list, epic.key)
          /\ IF Linked(parent_link, strat_keys_list)
             THEN /\ epics_by_strat' = DictAppend(epics_by_strat, parent_link, epic.key)
                  /\ IF rfe_key # None
                     THEN /\ Send(Ev("epic", epic.key, rfe_key, parent_link, None), next)
                          /\ total_epics' = IF connected THEN total_epics + 1 ELSE total_epics
                          /\ todo' = Tail(todo)
                     ELSE /\ Skip(next)
                          /\ UNCHANGED total_epics
             ELSE /\ Skip(next)
                  /\ UNCHANGED <<epics_by_strat, total_epics>>
    /\ UNCHANGED <<outside, mode, searches, fetched, strat_keys_list, strats_by_rfe, tasks_by_epic,
                   total_rfes, total_strats, total_tasks, orphaned>>

RfProgressTasks ==
    /\ pc = "rf190"
    /\ Send(ProgressEv("Loading Tasks..."), "rf198")
    /\ UNCHANGED <<outside, mode, searches, todo, fetched, key_lists, dicts, totals, orphaned>>

RfSearchTasks ==
    /\ pc = "rf198"
    /\ Search("task", TaskKeys, EpicLinks, "rf242", "rf201")
    /\ len_task_issues' = Len(todo')
    /\ UNCHANGED <<outside, mode, io, rfes, len_strat_issues, len_epic_issues, two_one_seen, key_lists,
                   dicts, totals, orphaned>>

\* a plausible slip: the parent epic is written again after each of its tasks
RfLinkTaskResendsEpic ==
    /\ pc = "rf201"
    /\ LET task == Head(todo)
           epic_link == task.epic_link
           strat_key == ParentOf(epics_by_strat, epic_link)
           rfe_key == IF strat_key = None THEN None ELSE ParentOf(strats_by_rfe, strat_key)
           next == IF Len(todo) = 1 THEN "rf242" ELSE "rf201"
       IN IF Linked(epic_link, epic_keys_list)
          THEN /\ tasks_by_epic' = DictAppend(tasks_by_epic, epic_link, task.key)
               /\ IF rfe_key # None /\ strat_key # None
                  THEN /\ events' = IF connected
                                    THEN events \o << Ev("task", task.key, rfe_key, strat_key, epic_link),
                                                     Ev("epic", epic_link, rfe_key, strat_key, None) >>
                                    ELSE events
                       /\ write_failed' = (write_failed \/ ~connected)
                       /\ pc' = IF connected THEN next ELSE "except"
                       /\ UNCHANGED connected
                       /\ total_tasks' = IF connected THEN total_tasks + 1 ELSE total_tasks
                       /\ todo' = Tail(todo)
                  ELSE /\ Skip(next)
                       /\ UNCHANGED total_tasks
          ELSE /\ Skip(next)
               /\ UNCHANGED <<tasks_by_epic, total_tasks>>
    /\ UNCHANGED <<outside, mode, searches, fetched, key_lists, strats_by_rfe, epics_by_strat,
                   total_rfes, total_strats, total_epics, orphaned>>

RfLinkTask ==
    /\ pc = "rf201"
    /\ LET task == Head(todo)
           epic_link == task.epic_link
           strat_key == ParentOf(epics_by_strat, epic_link)
           rfe_key == IF strat_key = None THEN None ELSE ParentOf(strats_by_rfe, strat_key)
           next == IF Len(todo) = 1 THEN "rf242" ELSE "rf201"
       IN IF Linked(epic_link, epic_keys_list)
          THEN /\ tasks_by_epic' = DictAppend(tasks_by_epic, epic_link, task.key)
               /\ IF rfe_key # None /\ strat_key # None
                  THEN /\ Send(Ev("task", task.key, rfe_key, strat_key, epic_link), next)
                       /\ total_tasks' = IF connected THEN total_tasks + 1 ELSE total_tasks
                       /\ todo' = Tail(todo)
                  ELSE /\ Skip(next)
                       /\ UNCHANGED total_tasks
          ELSE /\ Skip(next)
               /\ UNCHANGED <<tasks_by_epic, total_tasks>>
    /\ UNCHANGED <<outside, mode, searches, fetched, key_lists, strats_by_rfe, epics_by_strat,
                   total_rfes, total_strats, total_epics, orphaned>>

RfComplete ==
    /\ pc = "rf242"
    /\ Send(CompleteEv(total_rfes, total_strats, total_epics, total_tasks), "rf249")
    /\ UNCHANGED <<outside, mode, searches, todo, fetched, key_lists, dicts, totals, orphaned>>

RfOrphans ==
    /\ pc = "rf249"
    /\ orphaned' = << Orphaned(len_strat_issues, total_strats),
                      Orphaned(IF epic_keys_list # <<>> THEN len_epic_issues ELSE 0, total_epics),
                      Orphaned(IF epic_keys_list # <<>> THEN len_task_issues ELSE 0, total_tasks) >>
    /\ pc' = "done"
    /\ UNCHANGED <<outside, mode, io, searches, todo, fetched, key_lists, dicts, totals>>

RfeFirst ==
    \/ RfProgressRfes \/ RfFetchRfes \/ RfCompleteEmpty \/ RfStreamRfe
    \/ RfProgressStrats \/ RfSearchStrats \/ RfLinkStrat
    \/ RfProgressEpics \/ RfSearchEpics \/ RfLinkEpic
    \/ RfProgressTasks \/ RfSearchTasks \/ RfLinkTask
    \/ RfComplete \/ RfOrphans

\* ---------------------------------------------------------------------------
\* stream_hierarchy_strat_first
\* ---------------------------------------------------------------------------
SfProgressStrats ==
    /\ pc = "sf272"
    /\ Send(ProgressEv("Loading STRATs..."), "sf280")
    /\ UNCHANGED <<outside, mode, searches, todo, fetched, key_lists, dicts, totals, orphaned>>

\* a plausible slip: the early return of lines 283-287 is missing
SfSearchStratsNoEarlyReturn ==
    /\ pc = "sf280"
    /\ Search("strat", TopStratKeys, {<<>>}, "sf308", "sf292")
    /\ len_strat_issues' = Len(todo')
    /\ UNCHANGED <<outside, mode, io, rfes, len_epic_issues, len_task_issues, two_one_seen, key_lists,
                   dicts, totals, orphaned>>

SfSearchStrats ==
    /\ pc = "sf280"
    /\ Search("strat", TopStratKeys, {<<>>}, "sf284", "sf292")
    /\ len_strat_issues' = Len(todo')
    /\ UNCHANGED <<outside, mode, io, rfes, len_epic_issues, len_task_issues, two_one_seen, key_lists,
                   dicts, totals, orphaned>>

SfCompleteEmpty ==
    /\ pc = "sf284"
    /\ Send(CompleteEv(0, 0, 0, 0), "done")
    /\ UNCHANGED <<outside, mode, searches, todo, fetched, key_lists, dicts, totals, orphaned>>

SfStreamStrat ==
    /\ pc = "sf292"
    /\ strat_keys_list' = Append(strat_keys_list, Head(todo).key)
    /\ Send(Ev("strat", Head(todo).key, None, None, None),
            IF Len(todo) = 1 THEN "sf308" ELSE "sf292")
    /\ total_strats' = IF connected THEN total_strats + 1 ELSE total_strats
    /\ todo' = Tail(todo)
    /\ UNCHANGED <<outside, mode, searches, fetched, epic_keys_list, dicts, total_rfes, total_epics,
                   total_tasks, orphaned>>

SfProgressEpics ==
    /\ pc = "sf308"
    /\ Send(ProgressEv("Loading Epics..."), "sf316")
    /\ UNCHANGED <<outside, mode, searches, todo, fetched, key_lists, dicts, totals, orphaned>>

SfSearchEpics ==
    /\ pc = "sf316"
    /\ Search("epic", EpicKeys, ParentLinks, "sf393", "sf319")
    /\ len_epic_issues' = Len(todo')
    /\ UNCHANGED <<outside, mode, io, rfes, len_strat_issues, len_task_issues, two_one_seen, key_lists,
                   dicts, totals, orphaned>>

SfLinkEpic ==
    /\ pc = "sf319"
    /\ LET epic == Head(todo)
           parent_link == epic.parent_link
           next == IF Len(todo) = 1 THEN "sf349" ELSE "sf319"
       IN /\ epic_keys_list' = Append(epic_keys_list, epic.key)
          /\ IF Linked(parent_link, strat_keys_list)
             THEN /\ epics_by_strat' = DictAppend(epics_by_strat, parent_link, epic.key)
                  /\ Send(Ev("epic", epic.key, None, parent_link, None), next)
                  /\ total_epics' = IF connected THEN total_epics + 1 ELSE total_epics
                  /\ todo' = Tail(todo)
             ELSE /\ Skip(next)
                  /\ UNCHANGED <<epics_by_strat, total_epics>>
    /\ UNCHANGED <<outside, mode, searches, fetched, strat_keys_list, strats_by_rfe, tasks_by_epic,
                   total_rfes, total_strats, total_tasks, orphaned>>

SfProgressTasks ==
    /\ pc = "sf349"
    /\ Send(ProgressEv("Loading Tasks..."), "sf356")
    /\ UNCHANGED <<outside, mode, searches, todo, fetched, key_lists, dicts, totals, orphaned>>

SfSearchTasks ==
    /\ pc = "sf356"
    /\ Search("task", TaskKeys, EpicLinks, "sf393", "sf359")
    /\ len_task_issues' = Len(todo')
    /\ UNCHANGED <<outside, mode, io, rfes, len_strat_issues, len_epic_issues, two_one_seen, key_lists,
                   dicts, totals, orphaned>>

SfLinkTask ==
    /\ pc = "sf359"
    /\ LET task == Head(todo)
           epic_link == task.epic_link
           strat_key == ParentOf(epics_by_strat, epic_link)
           next == IF Len(todo) = 1 THEN "sf393" ELSE "sf359"
       IN IF Linked(epic_link, epic_keys_list)
          THEN /\ tasks_by_epic' = DictAppend(tasks_by_epic, epic_link, task.key)
               /\ IF strat_key # None
                  THEN /\ Send(Ev("task", task.key, None, strat_key, epic_link), next)
                       /\ total_tasks' = IF connected THEN total_tasks + 1 ELSE total_tasks
                       /\ todo' = Tail(todo)
                  ELSE /\ Skip(next)
                       /\ UNCHANGED total_tasks
          ELSE /\ Skip(next)
               /\ UNCHANGED <<tasks_by_epic, total_tasks>>
    /\ UNCHANGED <<outside, mode, searches, fetched, key_lists, strats_by_rfe, epics_by_strat,
                   total_rfes, total_strats, total_epics, orphaned>>

SfComplete ==
    /\ pc = "sf393"
    /\ Send(CompleteEv(0, total_strats, total_epics, total_tasks), "sf400")
    /\ UNCHANGED <<outside, mode, searches, todo, fetched, key_lists, dicts, totals, orphaned>>

SfOrphans ==
    /\ pc = "sf400"
    /\ orphaned' = << None,
                      Orphaned(IF epic_keys_list # <<>> THEN len_epic_issues ELSE 0, total_epics),
                      Orphaned(IF epic_keys_list # <<>> THEN len_task_issues ELSE 0, total_tasks) >>
    /\ pc' = "done"
    /\ UNCHANGED <<outside, mode, io, searches, todo, fetched, key_lists, dicts, totals>>

StratFirst ==
    \/ SfProgressStrats \/ SfSearchStrats \/ SfCompleteEmpty \/ SfStreamStrat
    \/ SfProgressEpics \/ SfSearchEpics \/ SfLinkEpic
    \/ SfProgressTasks \/ SfSearchTasks \/ SfLinkTask
    \/ SfComplete \/ SfOrphans

\* ---------------------------------------------------------------------------
\* The remote store as the JSON endpoints see it
\* ---------------------------------------------------------------------------
\* the fields build_issue_data reads through a nested object or a list
FieldNames == {"status", "priority", "assignee", "reporter", "labels", "comment"}

\* what a raw record says about a field: the key is missing (dict.get returns
\* its default), the value is null (Python's None), or the field is set
Absent == "Absent"
IsSet == "Set"
FieldStates == {Absent, None, IsSet}

\* the value the store sends for a field that is set
Present(name) ==
    IF name = "status" THEN [name |-> "Open"]
    ELSE IF name = "priority" THEN [name |-> "Major"]
    ELSE IF name = "assignee" THEN [displayName |-> "Ann", name |-> "ann"]
    ELSE IF name = "reporter" THEN [displayName |-> "Bob", name |-> "bob"]
    ELSE IF name = "labels" THEN <<"l1">>
    ELSE [comments |-> <<[body |-> "text", author |-> [displayName |-> "Ann"],
                         created |-> "d1"]>>]

\* fields.get(name, default)
Get(fields, name, default) ==
    IF fields[name] = Absent THEN default
    ELSE IF fields[name] = None THEN None
    ELSE Present(name)

\* fields of a record on which every field is set
AllPresent == [name \in FieldNames |-> IsSet]

\* an issue of the store: its key, its level (project and issue type), the key
\* its link to the level above refers to (clone link of a Strategy, Parent Link
\* of an Epic, Epic Link of a Task) and its fields
Issue(key, level, parent) ==
    [key |-> key, level |-> level, parent |-> parent, fields |-> AllPresent]

\* the issues a store of the model may hold, in the order the store lists them
Universe ==
    << Issue("R1", "rfe", None),
       Issue("S1", "strat", "R1"), Issue("S2", "strat", "R1"),
       Issue("E1", "epic", "S1"), Issue("E2", "epic", "S1"),
       Issue("T1", "task", "E1") >>

\* the sub-list of s at the positions in P, in order
RECURSIVE SubSeqAt(_, _, _)
SubSeqAt(s, P, n) ==
    IF n > Len(s) THEN <<>>
    ELSE IF n \in P THEN <<s[n]>> \o SubSeqAt(s, P, n + 1)
    ELSE SubSeqAt(s, P, n + 1)

\* the stores of the model: every sub-list of Universe, answering with whole
\* pages (honours: the store returns at most maxResults issues)
Stores ==
    {[issues |-> SubSeqAt(Universe, P, 1), honours |-> TRUE] : P \in SUBSET (1..Len(Universe))}

\* a JQL filter of the program: the field it selects on and the key it names
Jql(by, key) == [by |-> by, key |-> key]

\* whether an issue of the store satisfies a filter
\*   component   : fetch_rfes (project RHAIRFE, Feature Request, component)
\*   clones      : fetch_strats_for_rfe (project RHAISTRAT, linked to the key)
\*   Parent Link : fetch_epics_for_strat (project RHOAIENG, Epic)
\*   Epic Link   : fetch_tasks_for_epic (not Epic, Feature, Feature Request)
\*   key         : "key = K" of reload_item, no project and no issue type
Matches(issue, jql) ==
    IF jql.by = "component" THEN issue.level = "rfe"
    ELSE IF jql.by = "clones" THEN issue.level = "strat" /\ issue.parent = jql.key
    ELSE IF jql.by = "Parent Link" THEN issue.level = "epic" /\ issue.parent = jql.key
    ELSE IF jql.by = "Epic Link" THEN issue.level = "task" /\ issue.parent = jql.key
    ELSE issue.key = jql.key

\* the first n elements of s
Take(s, n) == IF Len(s) <= n THEN s ELSE SubSeq(s, 1, n)

\* the answer of the store to GET /rest/api/2/search: a failure status when the
\* store is down for that filter, else one page of the matching issues
RemoteSearch(st, down, jql, maxResults) ==
    IF jql \in down THEN [status |-> 503, issues |-> <<>>]
    ELSE LET matching == SelectSeq(st.issues, LAMBDA i : Matches(i, jql))
         IN [status |-> 200,
             issues |-> IF st.honours THEN Take(matching, maxResults) ELSE matching]

\* ---------------------------------------------------------------------------
\* config.py and jira_client.py
\* ---------------------------------------------------------------------------
\* outcome of a call: a value, or an exception with its message; http lists the
\* HTTP requests the call sent
Return(v, sent) == [raised |-> FALSE, error |-> None, value |-> v, http |-> sent]
Raise(e, sent) == [raised |-> TRUE, error |-> e, value |-> None, http |-> sent]

\* str(e) of the two ValueErrors (config.py line 21, jira_client.py line 36)
PatMissing == "JIRA Personal Access Token not provided"
ApiError == "JIRA API error"

\* the tokens of the model: none, the empty string, a token
Pats == {None, "", "tok"}

\* bool(x) of a token
Truthy(x) == x \notin {None, ""}

\* a plausible slip: the token is handed on without the test
get_jira_pat_unchecked(override_pat, JIRA_PAT) ==
    Return(IF Truthy(override_pat) THEN override_pat ELSE JIRA_PAT, <<>>)

get_jira_pat(override_pat, JIRA_PAT) ==
    LET pat == IF Truthy(override_pat) THEN override_pat ELSE JIRA_PAT
    IN IF ~Truthy(pat) THEN Raise(PatMissing, <<>>) ELSE Return(pat, <<>>)

\* one HTTP request sent to the store, with the status it was answered with
Sent(method, op, q, status) == [method |-> method, op |-> op, q |-> q, status |-> status]

\* a plausible slip: a page ten times as long is asked for
SearchParamsWide == [maxResults |-> 1000]

\* params of run_jira_query (lines 22-26)
SearchParams == [maxResults |-> 100]

\* run_jira_query after its first line: p is what get_jira_pat gave (line 19),
\* resp the answer to the request, sent when there is a token (lines 33-42)
SearchWithPat(p, jql, resp) ==
    IF p.raised THEN p
    ELSE IF resp.status # 200
    THEN Raise(ApiError, <<Sent("GET", "search", jql, resp.status)>>)
    ELSE Return(resp.issues, <<Sent("GET", "search", jql, resp.status)>>)

\* env: what a call meets outside the program: the configured token, the
\* store, and the filters the store is down for
run_jira_query(jql, jira_pat, env) ==
    SearchWithPat(get_jira_pat(jira_pat, env.JIRA_PAT), jql,
                  RemoteSearch(env.store, env.down, jql, SearchParams.maxResults))

\* the status the store answers a request of the operation op with: a failure
\* when the store is failing that operation, else the status given
RemoteStatus(env, op, status) == IF op \in env.failing THEN 503 ELSE status

\* the store holds an issue with that key
StoreHas(st, key) == \E n \in 1..Len(st.issues) : st.issues[n].key = key

IssueAt(st, key) == st.issues[CHOOSE n \in 1..Len(st.issues) : st.issues[n].key = key]

\* the key the store gives a new issue
NewKey == "N1"

\* create_jira_issue (lines 45-86)
create_jira_issue(project_key, jira_pat, env) ==
    LET p == get_jira_pat(jira_pat, env.JIRA_PAT)
        status == RemoteStatus(env, "create", 201)
        sent == <<Sent("POST", "create", project_key, status)>>
    IN IF p.raised THEN p
       ELSE IF status # 201 THEN Raise("Failed to create issue", sent)
       ELSE Return(NewKey, sent)

\* a plausible slip: a request answered with a failure is sent once more
get_jira_issue_retrying(issue_key, jira_pat, env) ==
    LET p == get_jira_pat(jira_pat, env.JIRA_PAT)
        status == RemoteStatus(env, "get", IF StoreHas(env.store, issue_key) THEN 200 ELSE 404)
        sent == <<Sent("GET", "get", issue_key, status)>>
    IN IF p.raised THEN p
       ELSE IF status # 200 THEN Raise("Failed to fetch issue", sent \o sent)
       ELSE Return(IssueAt(env.store, issue_key), sent)

\* get_jira_issue (lines 89-114); the store answers 404 for a key it does not hold
get_jira_issue(issue_key, jira_pat, env) ==
    LET p == get_jira_pat(jira_pat, env.JIRA_PAT)
        status == RemoteStatus(env, "get", IF StoreHas(env.store, issue_key) THEN 200 ELSE 404)
        sent == <<Sent("GET", "get", issue_key, status)>>
    IN IF p.raised THEN p
       ELSE IF status # 200 THEN Raise("Failed to fetch issue", sent)
       ELSE Return(IssueAt(env.store, issue_key), sent)

\* add_jira_comment (lines 117-140)
add_jira_comment(issue_key, jira_pat, env) ==
    LET p == get_jira_pat(jira_pat, env.JIRA_PAT)
        status == RemoteStatus(env, "comment", 201)
        sent == <<Sent("POST", "comment", issue_key, status)>>
    IN IF p.raised THEN p
       ELSE IF status # 201 THEN Raise("Failed to add comment", sent)
       ELSE Return(TRUE, sent)

\* list.remove(x): the first occurrence goes
RECURSIVE RemoveFirst(_, _)
RemoveFirst(s, x) ==
    IF s = <<>> THEN <<>>
    ELSE IF Head(s) = x THEN Tail(s)
    ELSE <<Head(s)>> \o RemoveFirst(Tail(s), x)

\* the list after "if action == 'add': .. elif action == 'remove': .." (lines 167-173)
Relabel(action, label, current_labels) ==
    IF action = "add"
    THEN IF InList(label, current_labels) THEN current_labels
         ELSE Append(current_labels, label)
    ELSE IF action = "remove" THEN RemoveFirst(current_labels, label)
    ELSE current_labels

\* update_jira_labels (lines 143-183): token, read of the labels, write of the
\* changed list; a null labels field makes "label in current_labels" raise
update_jira_labels(issue_key, action, label, jira_pat, env) ==
    LET p == get_jira_pat(jira_pat, env.JIRA_PAT)
        issue_data == get_jira_issue(issue_key, jira_pat, env)
        current_labels == Get(issue_data.value.fields, "labels", <<>>)
        updated == Relabel(action, label, current_labels)
        status == RemoteStatus(env, "update", 204)
        sent == issue_data.http \o <<Sent("PUT", "update", issue_key, status)>>
    IN IF p.raised THEN p
       ELSE IF issue_data.raised THEN issue_data
       ELSE IF issue_data.value.fields["labels"] = None /\ action \in {"add", "remove"}
       THEN Raise("TypeError", issue_data.http)
       ELSE IF status # 204 THEN Raise("Failed to update labels", sent)
       ELSE Return(updated, sent)

\* update_jira_issue (lines 186-212)
update_jira_issue(issue_key, jira_pat, env) ==
    LET p == get_jira_pat(jira_pat, env.JIRA_PAT)
        status == RemoteStatus(env, "update", 204)
        sent == <<Sent("PUT", "update", issue_key, status)>>
    IN IF p.raised THEN p
       ELSE IF status # 204 THEN Raise("Failed to update issue", sent)
       ELSE Return(TRUE, sent)

\* get_jira_transitions (lines 215-240)
get_jira_transitions(issue_key, jira_pat, env) ==
    LET p == get_jira_pat(jira_pat, env.JIRA_PAT)
        status == RemoteStatus(env, "transitions", 200)
        sent == <<Sent("GET", "transitions", issue_key, status)>>
    IN IF p.raised THEN p
       ELSE IF status # 200 THEN Raise("Failed to get transitions", sent)
       ELSE Return(<<[id |-> "11", name |-> "Done"]>>, sent)

\* transition_jira_issue (lines 243-266)
transition_jira_issue(issue_key, jira_pat, env) ==
    LET p == get_jira_pat(jira_pat, env.JIRA_PAT)
        status == RemoteStatus(env, "transition", 204)
        sent == <<Sent("POST", "transition", issue_key, status)>>
    IN IF p.raised THEN p
       ELSE IF status # 204 THEN Raise("Failed to transition issue", sent)
       ELSE Return(TRUE, sent)

\* ---------------------------------------------------------------------------
\* data_fetcher.py
\* ---------------------------------------------------------------------------
\* fields.get(name, {}).get(attr, default): the default {} stands in for a
\* missing key only, so a null value meets .get and raises AttributeError
RaisesOnNull(fields, name) == fields[name] = None

GetGet(fields, name, attr, default) ==
    IF fields[name] = Absent THEN default ELSE Present(name)[attr]

\* x = fields.get(name);  x.get(attr, default) if x else default
GetIf(fields, name, attr, default) ==
    IF fields[name] = IsSet THEN Present(name)[attr] ELSE default

\* the comprehension of lines 33-40 over fields.get('comment', {}).get('comments', [])
CommentList(fields) ==
    LET comments == GetGet(fields, "comment", "comments", <<>>)
    IN [n \in 1..Len(comments) |->
            [body |-> comments[n].body,
             author |-> comments[n].author.displayName,
             created |-> comments[n].created]]

\* build_issue_data (lines 7-43): assignee and reporter are guarded by
\* "if assignee"; status, priority and comment are read through .get(.., {})
build_issue_data(issue) ==
    LET fields == issue.fields
    IN IF RaisesOnNull(fields, "status") \/ RaisesOnNull(fields, "priority")
          \/ RaisesOnNull(fields, "comment")
       THEN Raise("AttributeError", <<>>)
       ELSE Return([key |-> issue.key,
                    status |-> GetGet(fields, "status", "name", "Unknown"),
                    priority |-> GetGet(fields, "priority", "name", "Undefined"),
                    assignee |-> GetIf(fields, "assignee", "displayName", "Unassigned"),
                    assignee_username |-> GetIf(fields, "assignee", "name", None),
                    reporter |-> GetIf(fields, "reporter", "displayName", "Unknown"),
                    labels |-> Get(fields, "labels", <<>>),
                    comments |-> CommentList(fields)], <<>>)

\* [build_issue_data(i) for i in issues], after the search that sent the
\* requests of sent
BuildAll(issues, sent) ==
    IF \E n \in 1..Len(issues) : build_issue_data(issues[n]).raised
    THEN Raise("AttributeError", sent)
    ELSE Return([n \in 1..Len(issues) |-> build_issue_data(issues[n]).value], sent)

\* the return statement of a fetch function: r is what run_jira_query gave
BuildIfReturned(r) == IF r.raised THEN r ELSE BuildAll(r.value, r.http)

fetch_rfes(jira_pat, env) ==
    BuildIfReturned(run_jira_query(Jql("component", None), jira_pat, env))

fetch_strats_for_rfe(rfe_key, jira_pat, env) ==
    BuildIfReturned(run_jira_query(Jql("clones", rfe_key), jira_pat, env))

fetch_epics_for_strat(strat_key, jira_pat, env) ==
    BuildIfReturned(run_jira_query(Jql("Parent Link", strat_key), jira_pat, env))

\* the except clause of fetch_tasks_for_epic (lines 149-151)
EmptyIfRaised(b) == IF b.raised THEN Return(<<>>, b.http) ELSE b

\* a plausible slip: the tasks are looked for by the field the epics are
\* looked for by
fetch_tasks_by_parent_link(epic_key, jira_pat, env) ==
    EmptyIfRaised(BuildIfReturned(run_jira_query(Jql("Parent Link", epic_key), jira_pat, env)))

\* fetch_tasks_for_epic (lines 121-151): every exception is caught, the
\* function then returns []
fetch_tasks_for_epic(epic_key, jira_pat, env) ==
    EmptyIfRaised(BuildIfReturned(run_jira_query(Jql("Epic Link", epic_key), jira_pat, env)))

\* ---------------------------------------------------------------------------
\* server.py: reload_item
\* ---------------------------------------------------------------------------
\* what a handler did: the response it wrote and the HTTP requests it sent
Handled(resp, sent) == [response |-> resp, http |-> sent]

\* a canonical issue with the ancestor keys set on it and its children
\* (the lists strats, epics, tasks) attached
Node(data, rk, sk, ek, children) ==
    [key |-> data.key, issue |-> data, rfe_key |-> rk, strat_key |-> sk, epic_key |-> ek,
     children |-> children]

\* the ancestor keys set on the tasks t of one epic (lines 294-297, 320-322, 338-339)
TasksUnder(t, epic_key, rk, sk) ==
    Return([n \in 1..Len(t.value) |-> Node(t.value[n], rk, sk, epic_key, <<>>)], t.http)

\* the tasks of one epic with their ancestor keys (lines 293-297, 319-322, 337-339)
TaskNodes(epic_key, rk, sk, jira_pat, env) ==
    TasksUnder(fetch_tasks_for_epic(epic_key, jira_pat, env), epic_key, rk, sk)

\* one epic with its tasks t, before the epics of the later turns of the loop
EpicCons(epic, t, rest, rk, sk) ==
    Return(<<Node(epic, rk, sk, None, t.value)>> \o rest.value, t.http \o rest.http)

\* the loop over epics from the n-th on (lines 290-298, 317-323)
RECURSIVE EpicNodes(_, _, _, _, _, _)
EpicNodes(epics, n, rk, sk, jira_pat, env) ==
    IF n > Len(epics) THEN Return(<<>>, <<>>)
    ELSE EpicCons(epics[n], TaskNodes(epics[n].key, rk, sk, jira_pat, env),
                  EpicNodes(epics, n + 1, rk, sk, jira_pat, env), rk, sk)

\* one strat with its epics en, before the strats of the later turns of the
\* loop; an exception in a later turn ends the loop
StratCons(strat, e, en, rest, rk) ==
    IF rest.raised THEN Raise(rest.error, e.http \o en.http \o rest.http)
    ELSE Return(<<Node(strat, rk, None, None, en.value)>> \o rest.value,
                e.http \o en.http \o rest.http)

\* the loop over strats from the n-th on (lines 285-300); an exception of
\* fetch_epics_for_strat ends it
RECURSIVE StratNodes(_, _, _, _, _)
RECURSIVE StratTurn(_, _, _, _, _, _)
\* one turn of that loop: e is what fetch_epics_for_strat gave (line 289)
StratTurn(strats, n, rk, jira_pat, env, e) ==
    IF e.raised THEN e
    ELSE StratCons(strats[n], e, EpicNodes(e.value, 1, rk, strats[n].key, jira_pat, env),
                   StratNodes(strats, n + 1, rk, jira_pat, env), rk)

StratNodes(strats, n, rk, jira_pat, env) ==
    IF n > Len(strats) THEN Return(<<>>, <<>>)
    ELSE StratTurn(strats, n, rk, jira_pat, env,
                   fetch_epics_for_strat(strats[n].key, jira_pat, env))

\* the except clause of reload_item (lines 360-363)
ReloadExcept(error, sent) == Handled(SendJson(500, error, <<>>), sent)

\* send_json({'success': True, 'data': ..}) with the children attached
\* (lines 300-302, 323-325, 337-341)
ReloadDone(data, sent, children) ==
    IF children.raised THEN ReloadExcept(children.error, sent \o children.http)
    ELSE Handled(SendJson(200, None, <<Node(data, None, None, None, children.value)>>),
                 sent \o children.http)

\* next(r for r in rfes if r['key'] == issue_key) (line 277)
FirstWithKey(items, issue_key) ==
    items[CHOOSE n \in 1..Len(items) :
            /\ items[n].key = issue_key
            /\ \A m \in 1..(n - 1) : items[m].key # issue_key]

\* lines 284-302: strats is what fetch_strats_for_rfe gave
RfeWithStrats(rfe, sent, strats, issue_key, jira_pat, env) ==
    IF strats.raised THEN ReloadExcept(strats.error, sent \o strats.http)
    ELSE ReloadDone(rfe, sent \o strats.http,
                    StratNodes(strats.value, 1, issue_key, jira_pat, env))

\* lines 277-302: listed is what fetch_rfes gave
RfeListed(listed, issue_key, jira_pat, env) ==
    IF listed.raised THEN ReloadExcept(listed.error, listed.http)
    ELSE IF ~\E n \in 1..Len(listed.value) : listed.value[n].key = issue_key
    THEN Handled(SendJson(404, "RFE not found", <<>>), listed.http)
    ELSE RfeWithStrats(FirstWithKey(listed.value, issue_key), listed.http,
                       fetch_strats_for_rfe(issue_key, jira_pat, env),
                       issue_key, jira_pat, env)

\* item_type == 'rfe' (lines 274-302)
ReloadRfe(issue_key, jira_pat, env) ==
    RfeListed(fetch_rfes(jira_pat, env), issue_key, jira_pat, env)

\* lines 313-325: b is the strat built, epics what fetch_epics_for_strat gave
StratWithEpics(b, sent, epics, issue_key, jira_pat, env) ==
    IF b.raised THEN ReloadExcept(b.error, sent)
    ELSE IF epics.raised THEN ReloadExcept(epics.error, sent \o epics.http)
    ELSE ReloadDone(b.value, sent \o epics.http,
                    EpicNodes(epics.value, 1, None, issue_key, jira_pat, env))

\* lines 309-325: q is what run_jira_query gave for 'key = {issue_key}'
StratQueried(q, issue_key, jira_pat, env) ==
    IF q.raised THEN ReloadExcept(q.error, q.http)
    ELSE IF q.value = <<>> THEN Handled(SendJson(404, "STRAT not found", <<>>), q.http)
    ELSE StratWithEpics(build_issue_data(q.value[1]), q.http,
                        fetch_epics_for_strat(issue_key, jira_pat, env),
                        issue_key, jira_pat, env)

\* item_type == 'strat' (lines 304-325)
ReloadStrat(issue_key, jira_pat, env) ==
    StratQueried(run_jira_query(Jql("key", issue_key), jira_pat, env),
                 issue_key, jira_pat, env)

\* lines 336-341 and 352-355: b is the item built, children its tasks
ItemBuilt(b, sent, children) ==
    IF b.raised THEN ReloadExcept(b.error, sent) ELSE ReloadDone(b.value, sent, children)

\* lines 332-341: q is what run_jira_query gave for 'key = {issue_key}'
EpicQueried(q, issue_key, jira_pat, env) ==
    IF q.raised THEN ReloadExcept(q.error, q.http)
    ELSE IF q.value = <<>> THEN Handled(SendJson(404, "Epic not found", <<>>), q.http)
    ELSE ItemBuilt(build_issue_data(q.value[1]), q.http,
                   TaskNodes(issue_key, None, None, jira_pat, env))

\* item_type == 'epic' (lines 327-341)
ReloadEpic(issue_key, jira_pat, env) ==
    EpicQueried(run_jira_query(Jql("key", issue_key), jira_pat, env),
                issue_key, jira_pat, env)

\* lines 348-355: q is what run_jira_query gave for 'key = {issue_key}'
TaskQueried(q) ==
    IF q.raised THEN ReloadExcept(q.error, q.http)
    ELSE IF q.value = <<>> THEN Handled(SendJson(404, "Task not found", <<>>), q.http)
    ELSE ItemBuilt(build_issue_data(q.value[1]), q.http, Return(<<>>, <<>>))

\* item_type == 'task' (lines 343-355)
ReloadTask(issue_key, jira_pat, env) ==
    TaskQueried(run_jira_query(Jql("key", issue_key), jira_pat, env))

\* reload_item (lines 248-363) for the query parameters req
reload_item(req, env) ==
    IF ~Truthy(req.issue_key) \/ ~Truthy(req.item_type)
    THEN Handled(SendJson(400, "Missing required parameters", <<>>), <<>>)
    ELSE IF req.item_type = "rfe" THEN ReloadRfe(req.issue_key, req.pat, env)
    ELSE IF req.item_type = "strat" THEN ReloadStrat(req.issue_key, req.pat, env)
    ELSE IF req.item_type = "epic" THEN ReloadEpic(req.issue_key, req.pat, env)
    ELSE IF req.item_type = "task" THEN ReloadTask(req.issue_key, req.pat, env)
    ELSE Handled(SendJson(400, "Invalid item type", <<>>), <<>>)

\* the query parameters of GET /api/reload-item and the token configured in
\* the environment of the server (config.JIRA_PAT)
ReloadKeys == {"R1", "S1", "S2", "E1", "E2", "T1", "Z9", None}
ItemTypes == {"rfe", "strat", "epic", "task", "bug"}
ReloadRequests ==
    [issue_key : ReloadKeys, item_type : ItemTypes, pat : {None, "tok"}, JIRA_PAT : {None}]

\* the filters the program can send
Filters ==
    {Jql("component", None)}
    \cup {Jql(by, k) : by \in {"clones", "Parent Link", "Epic Link", "key"},
                       k \in ReloadKeys \ {None}}

\* the store fails no request, or the requests with one filter
Outages == {{}} \cup {{f} : f \in Filters}

\* GET /api/reload-item: the whole handler
ReloadItem ==
    /\ pc = "idle"
    /\ \E req \in ReloadRequests, st \in Stores, down \in Outages :
         \E h \in {reload_item(req, [JIRA_PAT |-> req.JIRA_PAT, store |-> st,
                                     down |-> down])} :
            /\ request' = req
            /\ store' = st
            /\ http' = h.http
            /\ response' = h.response
    /\ pc' = "reloaded"
    /\ UNCHANGED <<threads, outcome, first_response, mode, io, searches, todo, fetched, key_lists, dicts,
                   totals, orphaned>>

\* the same request once more, the store unchanged in between
ReloadAgain ==
    /\ pc = "reloaded"
    /\ \E down \in Outages :
         \E h \in {reload_item(request, [JIRA_PAT |-> request.JIRA_PAT, store |-> store,
                                         down |-> down])} :
            /\ http' = h.http
            /\ response' = h.response
    /\ first_response' = response
    /\ pc' = "reloaded_twice"
    /\ UNCHANGED <<threads, request, store, outcome, mode, io, searches, todo, fetched, key_lists, dicts,
                   totals, orphaned>>

Reload == ReloadItem \/ ReloadAgain

\* ---------------------------------------------------------------------------
\* The functions of jira_client.py and data_fetcher.py called on their own
\* ---------------------------------------------------------------------------
\* what a call returned or raised, without the requests it sent
Outcome(r) == [raised |-> r.raised, error |-> r.error, value |-> r.value]

\* a store with n Requests of the component, n on either side of the page
\* size; it may ignore maxResults
SearchStores ==
    {[issues |-> [k \in 1..n |-> Issue(k, "rfe", None)], honours |-> h] :
        n \in {0, 1, 100, 101, 102}, h \in BOOLEAN}

\* run_jira_query with the Request filter
SearchCall ==
    /\ pc = "idle"
    /\ \E jira_pat \in Pats, env_pat \in Pats, st \in SearchStores,
          down \in {{}, {Jql("component", None)}} :
         LET r == run_jira_query(Jql("component", None), jira_pat,
                                 [JIRA_PAT |-> env_pat, store |-> st, down |-> down])
         IN /\ request' = [op |-> "search", pat |-> jira_pat, JIRA_PAT |-> env_pat]
            /\ store' = st
            /\ http' = r.http
            /\ outcome' = Outcome(r)
    /\ pc' = "called"
    /\ UNCHANGED <<threads, response, first_response, mode, io, searches, todo, fetched, key_lists,
                   dicts, totals, orphaned>>

\* the operations of jira_client.py besides the search
WriteOps == {"create", "get", "comment", "labels", "update", "transitions", "transition"}

\* the arguments of a call: action and label matter to "labels" alone
AdapterCalls ==
    {c \in [op : WriteOps, issue_key : {"E1", "Z9"}, action : {"add", "remove"},
            label : {"l1", "l2"}] :
        c.op # "labels" => (c.action = "add" /\ c.label = "l1")}

\* a store with the Epic E1, its labels field missing, null or set
AdapterStores ==
    {[issues |-> <<[Issue("E1", "epic", "S1") EXCEPT !.fields["labels"] = t]>>,
      honours |-> TRUE] : t \in FieldStates}

\* the operations the store may be failing: none, or one
Failing ==
    {{}} \cup {{op} : op \in {"create", "get", "comment", "update", "transitions",
                               "transition"}}

Invoke(c, jira_pat, env) ==
    IF c.op = "create" THEN create_jira_issue("RHOAIENG", jira_pat, env)
    ELSE IF c.op = "get" THEN get_jira_issue(c.issue_key, jira_pat, env)
    ELSE IF c.op = "comment" THEN add_jira_comment(c.issue_key, jira_pat, env)
    ELSE IF c.op = "labels"
    THEN update_jira_labels(c.issue_key, c.action, c.label, jira_pat, env)
    ELSE IF c.op = "update" THEN update_jira_issue(c.issue_key, jira_pat, env)
    ELSE IF c.op = "transitions" THEN get_jira_transitions(c.issue_key, jira_pat, env)
    ELSE transition_jira_issue(c.issue_key, jira_pat, env)

\* one call of one of these operations
AdapterCall ==
    /\ pc = "idle"
    /\ \E c \in AdapterCalls, jira_pat \in Pats, env_pat \in Pats, st \in AdapterStores,
          failing \in Failing :
         LET r == Invoke(c, jira_pat,
                         [JIRA_PAT |-> env_pat, store |-> st, down |-> {},
                          failing |-> failing])
         IN /\ request' = [op |-> c.op, pat |-> jira_pat, JIRA_PAT |-> env_pat]
            /\ store' = st
            /\ http' = r.http
            /\ outcome' = Outcome(r)
    /\ pc' = "called"
    /\ UNCHANGED <<threads, response, first_response, mode, io, searches, todo, fetched, key_lists,
                   dicts, totals, orphaned>>

\* the raw records build_issue_data is given: each field missing, null or set
RawRecords == {[Issue("E1", "epic", "S1") EXCEPT !.fields = f] : f \in [FieldNames -> FieldStates]}

\* build_issue_data on one raw record
BuildCall ==
    /\ pc = "idle"
    /\ \E raw \in RawRecords :
         /\ request' = raw
         /\ outcome' = Outcome(build_issue_data(raw))
    /\ pc' = "built"
    /\ UNCHANGED <<threads, store, http, response, first_response, mode, io, searches, todo, fetched,
                   key_lists, dicts, totals, orphaned>>

Calls == SearchCall \/ AdapterCall \/ BuildCall

Next ==
    \/ Start \/ RejectNoPat \/ Disconnect \/ Except \/ RfeFirst \/ StratFirst
    \/ Reload \/ Calls

Spec == Init /\ [][Next]_vars

\* ---------------------------------------------------------------------------
\* Two stream requests served in parallel (ThreadingHTTPServer: one thread per
\* request).  The variables of the flow belong to the thread that is running;
\* other holds those of the thread that is not.  The store is known and does
\* not change: a search of a level gets the same answer whoever asks.  A flow
\* first runs alone, then two flows run with their steps interleaved.
\* ---------------------------------------------------------------------------
\* the locals and the connection of the running thread
Context ==
    [pc |-> pc, mode |-> mode, connected |-> connected, write_failed |-> write_failed,
     events |-> events, searches |-> searches, todo |-> todo, rfes |-> rfes,
     len_strat_issues |-> len_strat_issues, len_epic_issues |-> len_epic_issues,
     len_task_issues |-> len_task_issues, strat_keys_list |-> strat_keys_list,
     epic_keys_list |-> epic_keys_list, strats_by_rfe |-> strats_by_rfe,
     epics_by_strat |-> epics_by_strat, tasks_by_epic |-> tasks_by_epic,
     total_rfes |-> total_rfes, total_strats |-> total_strats,
     total_epics |-> total_epics, total_tasks |-> total_tasks, orphaned |-> orphaned,
     two_one_seen |-> two_one_seen]

\* a plausible slip: the counters are module-level variables, one set for all
\* the threads
RunSharedCounters(c) ==
    /\ pc' = c.pc
    /\ mode' = c.mode
    /\ connected' = c.connected
    /\ write_failed' = c.write_failed
    /\ events' = c.events
    /\ searches' = c.searches
    /\ todo' = c.todo
    /\ rfes' = c.rfes
    /\ len_strat_issues' = c.len_strat_issues
    /\ len_epic_issues' = c.len_epic_issues
    /\ len_task_issues' = c.len_task_issues
    /\ strat_keys_list' = c.strat_keys_list
    /\ epic_keys_list' = c.epic_keys_list
    /\ strats_by_rfe' = c.strats_by_rfe
    /\ epics_by_strat' = c.epics_by_strat
    /\ tasks_by_epic' = c.tasks_by_epic
    /\ orphaned' = c.orphaned
    /\ two_one_seen' = c.two_one_seen
    /\ UNCHANGED totals

\* the thread whose locals are c runs next: every name the flow uses is a local
\* of its own invocation (sse.py lines 50-54, 78, 92-94 and on), wfile is the
\* handler's own connection
Run(c) ==
    /\ pc' = c.pc
    /\ mode' = c.mode
    /\ connected' = c.connected
    /\ write_failed' = c.write_failed
    /\ events' = c.events
    /\ searches' = c.searches
    /\ todo' = c.todo
    /\ rfes' = c.rfes
    /\ len_strat_issues' = c.len_strat_issues
    /\ len_epic_issues' = c.len_epic_issues
    /\ len_task_issues' = c.len_task_issues
    /\ strat_keys_list' = c.strat_keys_list
    /\ epic_keys_list' = c.epic_keys_list
    /\ strats_by_rfe' = c.strats_by_rfe
    /\ epics_by_strat' = c.epics_by_strat
    /\ tasks_by_epic' = c.tasks_by_epic
    /\ total_rfes' = c.total_rfes
    /\ total_strats' = c.total_strats
    /\ total_epics' = c.total_epics
    /\ total_tasks' = c.total_tasks
    /\ orphaned' = c.orphaned
    /\ two_one_seen' = c.two_one_seen

\* the flow that ran alone has ended with every write delivered; its events are
\* kept and two new requests arrive
Fork ==
    /\ phase = "solo"
    /\ pc = "done"
    /\ ~write_failed
    /\ solo' = [mode |-> mode, events |-> events]
    /\ phase' = "both"
    /\ other' = Fresh
    /\ Run(Fresh)
    /\ UNCHANGED <<service, remote, labels, updaters>>

\* the scheduler takes the running thread off and puts the other one on
Switch ==
    /\ phase = "both"
    /\ other' = Context
    /\ Run(other)
    /\ UNCHANGED <<service, remote, solo, phase, labels, updaters>>

\* the known stores: the issues of a store of the model and the levels whose
\* search the store answers with a failure: none, or one
PinnedStores ==
    {[pinned |-> TRUE, failing |-> f, issues |-> st.issues] :
        st \in Stores,
        f \in {{}} \cup {{level} : level \in {"rfe", "strat", "epic", "task"}}}

ConcInit ==
    /\ Idle
    /\ remote \in PinnedStores
    /\ phase = "solo"
    /\ labels = <<>>
    /\ updaters = <<Waiting, Waiting>>

ConcNext ==
    \/ Start \/ Disconnect \/ Except \/ RfeFirst \/ StratFirst
    \/ Fork \/ Switch

ConcSpec == ConcInit /\ [][ConcNext]_vars

\* ---------------------------------------------------------------------------
\* Two label updates on one issue, each in its own thread. A thread can be
\* taken off between the requests update_jira_labels sends, so the read of
\* the labels and the write of the changed list are two steps.
\* ---------------------------------------------------------------------------
\* handle_update_labels up to the first request of update_jira_labels: the
\* body is read, the fields are there, the token is looked up
PostLabels(t) ==
    /\ updaters[t].pc = "idle"
    /\ \E action \in {"add", "remove"}, label \in {"l1", "l2"}, pat \in Pats, env_pat \in Pats :
         LET p == get_jira_pat(pat, env_pat)
         IN updaters' = [updaters EXCEPT ![t] =
                            IF p.raised
                            THEN [@ EXCEPT !.pc = "done", !.action = action, !.label = label,
                                           !.response = SendJson(500, p.error, <<>>)]
                            ELSE [@ EXCEPT !.pc = "get", !.action = action, !.label = label]]
    /\ UNCHANGED <<flow, service, remote, other, solo, phase, labels>>

\* get_jira_issue(issue_key, 'labels', jira_pat) and the read of its labels
\* (lines 164-165): the list is the thread's own copy from here on
LabelsRead(t) ==
    /\ updaters[t].pc = "get"
    /\ \E status \in {200, 503} :
         updaters' = [updaters EXCEPT ![t] =
                         IF status # 200
                         THEN [@ EXCEPT !.pc = "done",
                                        !.response = SendJson(500, "Failed to fetch issue", <<>>)]
                         ELSE [@ EXCEPT !.pc = "put", !.current_labels = labels]]
    /\ UNCHANGED <<flow, service, remote, other, solo, phase, labels>>

\* the change of the copy and the PUT of the whole list (lines 167-183), then
\* the response of the handler
LabelsWrite(t) ==
    /\ updaters[t].pc = "put"
    /\ LET updated == Relabel(updaters[t].action, updaters[t].label, updaters[t].current_labels)
       IN \E status \in {204, 503} :
            IF status # 204
            THEN /\ updaters' = [updaters EXCEPT ![t].pc = "done",
                                     ![t].response = SendJson(500, "Failed to update labels", <<>>)]
                 /\ UNCHANGED labels
            ELSE /\ labels' = updated
                 /\ updaters' = [updaters EXCEPT ![t].pc = "done", ![t].current_labels = updated,
                                     ![t].response = SendJson(200, None, updated)]
    /\ UNCHANGED <<flow, service, remote, other, solo, phase>>

LabelInit ==
    /\ Idle
    /\ remote = BlackBox
    /\ phase = "single"
    /\ labels \in {<<>>, <<"l1">>, <<"l2">>, <<"l1", "l2">>, <<"l2", "l1">>}
    /\ updaters = <<Waiting, Waiting>>

LabelNext == \E t \in DOMAIN updaters : PostLabels(t) \/ LabelsRead(t) \/ LabelsWrite(t)

LabelSpec == LabelInit /\ [][LabelNext]_vars

\* ---------------------------------------------------------------------------
\* Vocabulary of the properties
\* ---------------------------------------------------------------------------
IssueTypes == {"rfe", "strat", "epic", "task"}

\* the level at the top of the running flow
TopType == IF mode = "strat" THEN "strat" ELSE "rfe"

\* number of events of type t among the first n events
CountBefore(t, n) == Cardinality({m \in 1..n : events[m].type = t})

\* an event of type t with key k was written before position n
EmittedBefore(t, k, n) == \E m \in 1..(n - 1) : events[m].type = t /\ events[m].key = k

\* the keys of the events of type t, in the order written
EmittedKeys(t) == KeysOf(SelectSeq(events, LAMBDA e : e.type = t))

IsTerminal(e) == e.type \in {"complete", "error"}

\* the flow has reached its end
Ended == pc = "done"

\* the searches made so far for one level
SearchesOf(level) == {n \in 1..Len(searches) : searches[n].level = level}

\* a search has failed
SearchFailed == \E n \in 1..Len(searches) : ~searches[n].ok

\* ---------------------------------------------------------------------------
\* C1: in either flow, every issue event below the top level is written after
\* an event for its direct parent key: the rfe_key of a strat (request-first
\* flow), the strat_key of an epic, the epic_key of a task.
\* ---------------------------------------------------------------------------
ParentBeforeChild ==
    \A n \in 1..Len(events) :
        LET e == events[n]
        IN /\ (e.type = "strat" /\ TopType = "rfe") => EmittedBefore("rfe", e.rfe_key, n)
           /\ e.type = "epic" => EmittedBefore("strat", e.strat_key, n)
           /\ e.type = "task" => EmittedBefore("epic", e.epic_key, n)

\* a request-first flow has streamed a whole branch down to a task
ParentBeforeChild_Witness ==
    /\ mode = "rfe"
    /\ \E n \in 1..Len(events) : events[n].type = "task"

\* ---------------------------------------------------------------------------
\* C2: each total of a complete event equals the number of events of that
\* level written before it.
\* ---------------------------------------------------------------------------
TotalsMatchEmitted ==
    \A n \in 1..Len(events) :
        events[n].type = "complete" =>
            events[n].totals = << CountBefore("rfe", n), CountBefore("strat", n),
                                  CountBefore("epic", n), CountBefore("task", n) >>

\* a complete event after events of every level, with an orphan left out
TotalsMatchEmitted_Witness ==
    /\ \E n \in 1..Len(events) :
        /\ events[n].type = "complete"
        /\ events[n].totals[1] = 2
        /\ events[n].totals[2] = 1
        /\ events[n].totals[3] = 2
        /\ events[n].totals[4] = 1
    /\ len_strat_issues = 2

\* ---------------------------------------------------------------------------
\* C3: a flow none of whose writes failed ends with exactly one terminal event
\* (complete or error, never both); in any flow nothing is written after a
\* terminal event.
\* ---------------------------------------------------------------------------
OneTerminalEvent ==
    /\ \A n \in 1..Len(events) : IsTerminal(events[n]) => n = Len(events)
    /\ (Ended /\ ~write_failed) => (events # <<>> /\ IsTerminal(events[Len(events)]))

\* a flow that streamed issues, then failed at a search and ended with error
OneTerminalEvent_Witness ==
    /\ Ended
    /\ ~write_failed
    /\ events[Len(events)].type = "error"
    /\ \E n \in 1..Len(events) : events[n].type = "strat"

\* ---------------------------------------------------------------------------
\* C4: once a search has failed, no further search is made, no issue or
\* progress event is written, the events already written stay as they are, and
\* the only event that may follow is one error event, which a flow whose writes
\* succeed does write.
\* ---------------------------------------------------------------------------
FailureStep ==
    SearchFailed =>
        /\ searches' = searches
        /\ \/ events' = events
           \/ /\ events' = Append(events, ErrorEv)
              /\ \A n \in 1..Len(events) : events[n].type # "error"

FailureEndsInError ==
    (SearchFailed /\ Ended /\ ~write_failed) =>
        Cardinality({n \in 1..Len(events) : events[n].type = "error"}) = 1

SearchFailureStopsFlow == [][FailureStep]_vars /\ []FailureEndsInError

\* the Epic search of a request-first flow failed after two levels were
\* streamed, and the flow has ended
SearchFailureStopsFlow_Witness ==
    /\ Ended
    /\ ~write_failed
    /\ Len(searches) = 3
    /\ ~searches[3].ok
    /\ \E n \in 1..Len(events) : events[n].type = "strat"

\* ---------------------------------------------------------------------------
\* C5: in a request-first flow a fetched Strategy is emitted with rfe_key = R
\* exactly when R is the key referenced by the first entry of its link list,
\* in list order, whose inward or outward key is a fetched Request key; a
\* Strategy without such an entry is not emitted.  The choice depends on the
\* list alone, so it is the same on every run.
\* ---------------------------------------------------------------------------
\* the fetched Request key set
RequestKeySet == {rfes[n].key : n \in 1..Len(rfes)}

\* the key a link entry refers to
Referenced(link) == IF link.inwardIssue # None THEN link.inwardIssue ELSE link.outwardIssue

\* R is referenced by the first entry of links that refers to a fetched Request
FirstMatch(links, R) ==
    \E n \in 1..Len(links) :
        /\ Referenced(links[n]) = R
        /\ R \in RequestKeySet
        /\ \A m \in 1..(n - 1) : Referenced(links[m]) \notin RequestKeySet

\* the loop of lines 92-130 visits a Strategy while the client is connected
StratVisit == pc = "rf92" /\ connected /\ todo' # todo

StratLinkStep ==
    StratVisit =>
        LET strat == Head(todo)
        IN /\ \A R \in RfeKeys \cup {ForeignKey} :
                (events' = Append(events, Ev("strat", strat.key, R, None, None)))
                    <=> FirstMatch(strat.issuelinks, R)
           /\ (\A R \in RfeKeys \cup {ForeignKey} : ~FirstMatch(strat.issuelinks, R))
                => events' = events

KeySetOf(list) == {list[n] : n \in 1..Len(list)}

\* d holds child under parent
Attached(d, parent, child) == \E n \in 1..Len(d) : d[n].k = parent /\ InList(child, d[n].v)

EpicVisit == pc \in {"rf151", "sf319"} /\ connected /\ todo' # todo

TaskVisit == pc \in {"rf201", "sf359"} /\ connected /\ todo' # todo

\* the step wrote one event of the given type for child under parent
EmitsUnder(type, child, parent) ==
    /\ Len(events') = Len(events) + 1
    /\ events'[Len(events')].type = type
    /\ events'[Len(events')].key = child
    /\ IF type = "epic" THEN events'[Len(events')].strat_key = parent
       ELSE events'[Len(events')].epic_key = parent

EpicLinkStep ==
    EpicVisit =>
        LET epic == Head(todo)
            P == epic.parent_link
        IN IF P # None /\ P \in KeySetOf(strat_keys_list)
           THEN EmitsUnder("epic", epic.key, P) /\ Attached(epics_by_strat', P, epic.key)
           ELSE events' = events /\ epics_by_strat' = epics_by_strat

TaskLinkStep ==
    TaskVisit =>
        LET task == Head(todo)
            P == task.epic_link
        IN IF P # None /\ P \in KeySetOf(epic_keys_list)
           THEN EmitsUnder("task", task.key, P) /\ Attached(tasks_by_epic', P, task.key)
           ELSE events' = events /\ tasks_by_epic' = tasks_by_epic

LinkedIffParentKnown == [][EpicLinkStep /\ TaskLinkStep]_vars

\* ---------------------------------------------------------------------------
\* C7: every orphan count computed for a level below the top level equals the
\* number of records fetched at that level minus the number emitted at that
\* level, and is not negative; after two Requests, one Strategy with an outward
\* reference to one of them and one Strategy without reference, the flow
\* reports total_rfes = 2, total_strats = 1 and one orphaned Strategy.
\* ---------------------------------------------------------------------------
\* number of records the store returned for a level (0 when not searched)
FetchedAt(level) ==
    IF \E n \in SearchesOf(level) : searches[n].ok
    THEN Len(searches[CHOOSE n \in SearchesOf(level) : searches[n].ok].keys)
    ELSE 0

OrphanLevels == <<"strat", "epic", "task">>

OrphanCountsRight ==
    /\ orphaned # None =>
        \A k \in 1..3 :
            OrphanLevels[k] # TopType =>
                /\ orphaned[k] = FetchedAt(OrphanLevels[k]) - Len(EmittedKeys(OrphanLevels[k]))
                /\ orphaned[k] >= 0
    /\ two_one_seen =>
        /\ \A n \in 1..Len(events) :
              events[n].type = "complete" =>
                  events[n].totals[1] = 2 /\ events[n].totals[2] = 1
        /\ orphaned # None => orphaned[1] = 1

\* the flow of the two-Request scenario has ended, with orphans below as well
OrphanCountsRight_Witness ==
    /\ two_one_seen
    /\ orphaned # None
    /\ orphaned[1] = 1
    /\ orphaned[2] = 1
    /\ events[Len(events)].type = "complete"

\* ---------------------------------------------------------------------------
\* C8: every issue event carries a non-empty key, and every issue event below
\* the top level carries, as the topmost entry of its ancestor chain (rfe_key
\* in a request-first flow, strat_key in a strategy-first flow), the key of a
\* top-level record emitted in the same flow.
\* ---------------------------------------------------------------------------
TopAncestor(e) == IF TopType = "rfe" THEN e.rfe_key ELSE e.strat_key

KeysAndTopAncestor ==
    \A n \in 1..Len(events) :
        LET e == events[n]
        IN e.type \in IssueTypes =>
            /\ e.key # None
            /\ e.key # ""
            /\ e.type # TopType => EmittedBefore(TopType, TopAncestor(e), n)

\* both kinds of flow reach this: a task under an emitted top-level record
KeysAndTopAncestor_Witness ==
    /\ mode = "strat"
    /\ \E n \in 1..Len(events) : events[n].type = "task" /\ events[n].strat_key \in StratKeys

\* ---------------------------------------------------------------------------
\* C9: within each level the issue events are written in the order the store
\* returned the records: the emitted keys are an order-preserving subsequence
\* of the answer to that level's search.
\* ---------------------------------------------------------------------------
RECURSIVE IsSubseq(_, _)
IsSubseq(a, b) ==
    IF a = <<>> THEN TRUE
    ELSE IF b = <<>> THEN FALSE
    ELSE IF Head(a) = Head(b) THEN IsSubseq(Tail(a), Tail(b))
    ELSE IsSubseq(a, Tail(b))

EmittedInStoreOrder ==
    \A level \in IssueTypes :
        /\ \A n \in SearchesOf(level) : IsSubseq(EmittedKeys(level), searches[n].keys)
        /\ SearchesOf(level) = {} => EmittedKeys(level) = <<>>

\* a level answered with two records of which both were emitted, and a level
\* answered with two records of which only the second was emitted
EmittedInStoreOrder_Witness ==
    /\ \E n \in 1..Len(searches) :
          Len(searches[n].keys) = 2 /\ EmittedKeys(searches[n].level) = searches[n].keys
    /\ \E n \in 1..Len(searches) :
          Len(searches[n].keys) = 2 /\ EmittedKeys(searches[n].level) = <<searches[n].keys[2]>>

\* ---------------------------------------------------------------------------
\* C10: a strategy-first flow makes no Request search, writes no rfe event, and
\* every complete event it writes reports total_rfes = 0.
\* ---------------------------------------------------------------------------
StratFirstHasNoRequests ==
    mode = "strat" =>
        /\ SearchesOf("rfe") = {}
        /\ \A n \in 1..Len(events) :
              /\ events[n].type # "rfe"
              /\ events[n].type = "complete" => events[n].totals[1] = 0

\* a strategy-first flow that completed after streaming all three levels
StratFirstHasNoRequests_Witness ==
    /\ mode = "strat"
    /\ \E n \in 1..Len(events) :
          /\ events[n].type = "complete"
          /\ events[n].totals[2] >= 1
          /\ events[n].totals[3] >= 1
          /\ events[n].totals[4] >= 1

\* ---------------------------------------------------------------------------
\* C11: in a strategy-first flow whose Strategy search returned no record, that
\* search is the only search made, the event after the Strategy progress event
\* is a complete event with four zero counts, nothing else is written, and a
\* flow whose writes succeed does write it.
\* ---------------------------------------------------------------------------
EmptyStratSearch ==
    /\ mode = "strat"
    /\ searches # <<>>
    /\ searches[1].ok
    /\ searches[1].keys = <<>>

EmptyStratFirstCompletes ==
    EmptyStratSearch =>
        /\ Len(searches) = 1
        /\ SearchesOf("epic") = {} /\ SearchesOf("task") = {}
        /\ Len(events) \in {1, 2}
        /\ events[1] = ProgressEv("Loading STRATs...")
        /\ Len(events) = 2 => events[2] = CompleteEv(0, 0, 0, 0)
        /\ (Ended /\ ~write_failed) => Len(events) = 2

\* the flow has ended on the early return
EmptyStratFirstCompletes_Witness ==
    /\ EmptyStratSearch
    /\ Ended
    /\ Len(events) = 2
    /\ events[2].type = "complete"

\* ---------------------------------------------------------------------------
\* Vocabulary of the properties of the JSON endpoints and of single calls
\* ---------------------------------------------------------------------------
\* a reload request has been answered
Reloaded == pc \in {"reloaded", "reloaded_twice"}

\* the request names a level and a key, so reload_item goes to the store
WellFormed == request.item_type \in IssueTypes /\ Truthy(request.issue_key)

\* the token given with the request or the configured one can be used
UsablePat == Truthy(request.pat) \/ Truthy(request.JIRA_PAT)

\* the store answered one of the requests sent with a failure status
RemoteFailed == \E n \in 1..Len(http) : http[n].status \notin {200, 201, 204}

\* the store holds an issue of that level with that key
HoldsAtLevel(st, level, key) ==
    \E n \in 1..Len(st.issues) : st.issues[n].key = key /\ st.issues[n].level = level

\* ---------------------------------------------------------------------------
\* C12: a reload of (item_type, issue_key) for which the store holds no issue
\* of that level with that key (the key may exist at another level) is answered
\* with 404 and no data; stated for reloads that had a usable token and met no
\* remote failure.
\* ---------------------------------------------------------------------------
ReloadNotFound ==
    (/\ Reloaded
     /\ WellFormed
     /\ UsablePat
     /\ ~RemoteFailed
     /\ ~HoldsAtLevel(store, request.item_type, request.issue_key))
        => (response.status = 404 /\ response.data = <<>>)

\* ---------------------------------------------------------------------------
\* C13: a reload during which a remote call failed, at whatever level, is
\* answered with an error result and never with a success result.
\* ---------------------------------------------------------------------------
ReloadFailurePropagates ==
    (Reloaded /\ RemoteFailed) => (response.status = 500 /\ response.data = <<>>)

\* ---------------------------------------------------------------------------
\* C14: an adapter operation called with no usable token (none or an empty one
\* given, none or an empty one configured) fails with the configuration error
\* and sends no HTTP request.
\* ---------------------------------------------------------------------------
\* an adapter operation has been called and has returned or raised
Called == pc = "called"

CredentialFailFast ==
    (Called /\ ~UsablePat)
        => (outcome.raised /\ outcome.error = PatMissing /\ http = <<>>)

\* the label update, which sends two requests when it has a token, was called
\* with an empty token and none configured
CredentialFailFast_Witness ==
    /\ Called
    /\ request.op = "labels"
    /\ request.pat = ""
    /\ request.JIRA_PAT = None
    /\ outcome.raised
    /\ http = <<>>

\* ---------------------------------------------------------------------------
\* C15: at both endpoints a missing credential and a not-found item are told
\* apart from a remote non-success answer by the status and by the payload.
\* ---------------------------------------------------------------------------
\* what reload_item answers when a remote call raised
RemoteFailureAnswer == ReloadExcept(ApiError, <<>>).response

Distinguishable(answer) ==
    /\ answer.status # RemoteFailureAnswer.status
    /\ answer.error # RemoteFailureAnswer.error

BoundaryDistinguishes ==
    /\ pc = "rejected" => Distinguishable(response)
    /\ (Reloaded /\ response.status = 404) => Distinguishable(response)
    /\ (Reloaded /\ WellFormed /\ ~UsablePat) => Distinguishable(response)

\* ---------------------------------------------------------------------------
\* C16: build_issue_data never fails on a missing or null assignee, reporter or
\* priority and fills the defaults: "Unassigned", "Unknown", "Undefined", an
\* empty label list and an empty comment list.  Stated for records whose status
\* and comment fields are not null.
\* ---------------------------------------------------------------------------
Built == pc = "built"

Missing(name) == request.fields[name] \in {Absent, None}

BuildIssueDataDefaults ==
    (Built /\ request.fields["status"] # None /\ request.fields["comment"] # None)
        => /\ ~outcome.raised
           /\ Missing("assignee") => outcome.value.assignee = "Unassigned"
           /\ Missing("reporter") => outcome.value.reporter = "Unknown"
           /\ Missing("priority") => outcome.value.priority = "Undefined"
           /\ request.fields["labels"] = Absent => outcome.value.labels = <<>>
           /\ request.fields["comment"] = Absent => outcome.value.comments = <<>>

\* ---------------------------------------------------------------------------
\* C18: once a write of an event to the client has failed in a stream flow,
\* the flow makes no further search and no later event reaches the client.
\* ---------------------------------------------------------------------------
NoWorkAfterFailedWrite ==
    [][write_failed => (searches' = searches /\ events' = events)]_vars

\* a flow whose first search found issues ended after a failed write, with the
\* searches of the lower levels never made
NoWorkAfterFailedWrite_Witness ==
    /\ Ended
    /\ write_failed
    /\ Len(searches) = 1
    /\ searches[1].ok
    /\ searches[1].keys # <<>>

\* ---------------------------------------------------------------------------
\* C19: two reloads of the same (issue_key, item_type) with the store unchanged
\* in between that both return a result return the same result: the same item,
\* the same descendants in the same order, the same ancestor keys on each.
\* ---------------------------------------------------------------------------
ReloadIdempotent ==
    (pc = "reloaded_twice" /\ first_response.status = 200 /\ response.status = 200)
        => response = first_response

\* ---------------------------------------------------------------------------
\* C20: whatever the remote store answers, the sequence run_jira_query returns
\* has at most 100 elements.
\* ---------------------------------------------------------------------------
\* run_jira_query has been called and has returned
Searched == Called /\ request.op = "search" /\ ~outcome.raised

SearchCapAlways == Searched => Len(outcome.value) <= 100

\* C20, amended: the sequence has at most 100 elements when the remote store
\* honours the maxResults parameter of the request; the function does not cut
\* the answer itself.
SearchCapHonoured == (Searched /\ store.honours) => Len(outcome.value) <= 100

\* more than 100 issues match and the store returns the first 100 of them
SearchCapHonoured_Witness ==
    /\ Searched
    /\ store.honours
    /\ Len(store.issues) > 100
    /\ Len(outcome.value) = 100

\* ---------------------------------------------------------------------------
\* C17: a stream flow that runs while another flow runs on the same unchanging
\* store writes the events it writes when it runs alone: at every moment the
\* events written so far are the first events of the run alone, and a flow
\* that has ended with every write delivered has written all of them.
\* (A reload keeps nothing but the locals of reload_item and is one step here.)
\* ---------------------------------------------------------------------------
IsPrefix(a, b) == Len(a) <= Len(b) /\ SubSeq(b, 1, Len(a)) = a

\* the flow with locals c has done what the flow that ran alone did
AsAlone(c) ==
    c.mode = solo.mode
        => /\ IsPrefix(c.events, solo.events)
           /\ (c.pc = "done" /\ ~c.write_failed) => c.events = solo.events

OneSearchPerLevel ==
    /\ \A level \in IssueTypes : Cardinality(SearchesOf(level)) <= 1
    /\ mode = "rfe" => Len(searches) <= 4
    /\ mode = "strat" => Len(searches) <= 3

\* a request-first flow has ended after four searches, the Strategy search
\* having returned two records
OneSearchPerLevel_Witness ==
    /\ Ended
    /\ mode = "rfe"
    /\ Len(searches) = 4
    /\ \E n \in SearchesOf("strat") : Len(searches[n].keys) = 2
    /\ \E n \in SearchesOf("epic") : Len(searches[n].keys) = 2

\* ---------------------------------------------------------------------------
\* C23: the parent-key lists that scope the search of the next level and serve
\* its membership test hold only keys of records emitted at their own level;
\* the key of an orphaned record is not kept.
\* ---------------------------------------------------------------------------
KeyListsHoldEmittedOnly ==
    ~write_failed =>
        /\ \A n \in 1..Len(strat_keys_list) : InList(strat_keys_list[n], EmittedKeys("strat"))
        /\ \A n \in 1..Len(epic_keys_list) : InList(epic_keys_list[n], EmittedKeys("epic"))

\* ---------------------------------------------------------------------------
\* C24: every search is made right after the progress event of its level, no
\* other event lying between the two; no issue event of a level is written
\* before the progress event of that level; the progress event of a level is
\* written at most once in a flow.
\* ---------------------------------------------------------------------------
LoadingMessage(level) ==
    CASE level = "rfe" -> "Loading RFEs..."
      [] level = "strat" -> "Loading STRATs..."
      [] level = "epic" -> "Loading Epics..."
      [] level = "task" -> "Loading Tasks..."

ProgressAt(level) == {n \in 1..Len(events) : events[n] = ProgressEv(LoadingMessage(level))}

SearchFollowsProgress ==
    Len(searches') > Len(searches) =>
        /\ events' = events
        /\ events # <<>>
        /\ events[Len(events)] = ProgressEv(LoadingMessage(searches'[Len(searches')].level))

ProgressOpensLevel ==
    /\ \A n \in 1..Len(events) :
         events[n].type \in IssueTypes => \E m \in ProgressAt(events[n].type) : m < n
    /\ \A level \in IssueTypes : Cardinality(ProgressAt(level)) <= 1

ProgressFramesLevel == [][SearchFollowsProgress /\ ProgressOpensLevel']_vars

\* a request-first flow has ended with an event written at each of the four
\* levels
ProgressFramesLevel_Witness ==
    /\ Ended
    /\ mode = "rfe"
    /\ \A level \in IssueTypes :
         /\ SearchesOf(level) # {}
         /\ \E n \in 1..Len(events) : events[n].type = level

\* ---------------------------------------------------------------------------
\* C26: the levels are emitted strictly one after another: every rfe event
\* precedes every strat event, every strat event precedes every epic event,
\* and every epic event precedes every task event.
\* ---------------------------------------------------------------------------
LevelRank(type) ==
    CASE type = "rfe" -> 1
      [] type = "strat" -> 2
      [] type = "epic" -> 3
      [] type = "task" -> 4

LevelsInOrder ==
    \A m, n \in 1..Len(events) :
        (m < n /\ events[m].type \in IssueTypes /\ events[n].type \in IssueTypes)
            => LevelRank(events[m].type) <= LevelRank(events[n].type)

\* two Strategies, two Epics and two Tasks have been written in one flow
LevelsInOrder_Witness ==
    /\ mode = "rfe"
    /\ \A t \in {"strat", "epic", "task"} : CountBefore(t, Len(events)) = 2

\* ---------------------------------------------------------------------------
\* C27: the ancestor keys agree along each branch: the rfe_key of an emitted
\* epic or task is the rfe_key of the emitted strat its strat_key names, and
\* the strat_key of an emitted task is the strat_key of the emitted epic its
\* epic_key names.
\* ---------------------------------------------------------------------------
EventsOf(type, key) == {n \in 1..Len(events) : events[n].type = type /\ events[n].key = key}

AncestorsAgree ==
    \A n \in 1..Len(events) :
        /\ events[n].type \in {"epic", "task"} =>
              /\ EventsOf("strat", events[n].strat_key) # {}
              /\ \A m \in EventsOf("strat", events[n].strat_key) :
                    events[m].rfe_key = events[n].rfe_key
        /\ events[n].type = "task" =>
              /\ EventsOf("epic", events[n].epic_key) # {}
              /\ \A m \in EventsOf("epic", events[n].epic_key) :
                    events[m].strat_key = events[n].strat_key

\* a task has been written under the second of two Requests, through a
\* Strategy and an Epic that are the second of their answers
AncestorsAgree_Witness ==
    \E n \in 1..Len(events) :
        /\ events[n].type = "task"
        /\ events[n].rfe_key # None
        /\ EmittedKeys("rfe") # <<>>
        /\ events[n].rfe_key # EmittedKeys("rfe")[1]
        /\ events[n].strat_key # EmittedKeys("strat")[1]
        /\ events[n].epic_key # EmittedKeys("epic")[1]

\* ---------------------------------------------------------------------------
\* C29: the Epic search is made if and only if the Strategy search returned at
\* least one record, linked or not; the Task search is made if and only if the
\* Epic search returned at least one record; a request-first flow whose
\* Requests search returned nothing makes that one search and then writes
\* complete with four zeros.
\* ---------------------------------------------------------------------------
Returned(level) == \E n \in SearchesOf(level) : searches[n].ok /\ searches[n].keys # <<>>

Completed == \E n \in 1..Len(events) : events[n].type = "complete"

SearchIffParentsReturned ==
    /\ SearchesOf("epic") # {} => Returned("strat")
    /\ SearchesOf("task") # {} => Returned("epic")
    /\ Completed =>
          /\ Returned("strat") => SearchesOf("epic") # {}
          /\ Returned("epic") => SearchesOf("task") # {}
          /\ (mode = "rfe" /\ ~Returned("rfe")) =>
                /\ Len(searches) = 1
                /\ events[Len(events)] = CompleteEv(0, 0, 0, 0)

\* a request-first flow has completed after a Strategy search whose records
\* were all left unlinked, and the Epic search was made
SearchIffParentsReturned_Witness ==
    /\ mode = "rfe"
    /\ Completed
    /\ Returned("strat")
    /\ EmittedKeys("strat") = <<>>
    /\ SearchesOf("epic") # {}

\* ---------------------------------------------------------------------------
\* C30: when the keys of each search answer are pairwise distinct, no issue
\* key is written in more than one issue event of a flow.
\* ---------------------------------------------------------------------------
DistinctAnswers ==
    \A n \in 1..Len(searches) :
        \A a, b \in 1..Len(searches[n].keys) : a # b => searches[n].keys[a] # searches[n].keys[b]

SuccessStatus == {200, 201, 204}

NoResend ==
    Called =>
        /\ \A n \in 1..Len(http) :
              http[n].status \notin SuccessStatus => (n = Len(http) /\ outcome.raised)
        /\ \A a, b \in 1..Len(http) :
              a # b => <<http[a].method, http[a].op, http[a].q>> # <<http[b].method, http[b].op, http[b].q>>

\* the label update was called with a token and its read of the labels was
\* answered with a failure: the write was not sent
NoResend_Witness ==
    /\ Called
    /\ request.op = "labels"
    /\ http # <<>>
    /\ http[1].method = "GET"
    /\ http[1].status \notin SuccessStatus
    /\ Len(http) = 1
    /\ outcome.raised

\* ---------------------------------------------------------------------------
\* C28: two label updates made at the same time on one issue, when both
\* succeed, leave a label list that reflects both: a label one of them added
\* is in the list, a label one of them removed is not.
\* ---------------------------------------------------------------------------
Succeeded(t) == updaters[t].pc = "done" /\ updaters[t].response.status = 200

\* the two updates do not undo each other
Compatible ==
    updaters[1].label = updaters[2].label => updaters[1].action = updaters[2].action

NoLostUpdate ==
    (Succeeded(1) /\ Succeeded(2) /\ Compatible) =>
        \A t \in DOMAIN updaters :
            /\ updaters[t].action = "add" => InList(updaters[t].label, labels)
            /\ updaters[t].action = "remove" => ~InList(updaters[t].label, labels)

\* ---------------------------------------------------------------------------
\* C22: for any state of the store, the descendants reload_item returns for
\* (item_type, K) are exactly the records a whole stream flow over the same
\* store writes with K in their ancestor chain, each under the same parent.
\* ---------------------------------------------------------------------------
\* the level below a level
Below(type) ==
    CASE type = "rfe" -> "strat"
      [] type = "strat" -> "epic"
      [] type = "epic" -> "task"
      [] type = "task" -> None

\* the key of the direct parent an issue event names
ParentKey(e) ==
    CASE e.type = "strat" -> e.rfe_key
      [] e.type = "epic" -> e.strat_key
      [] e.type = "task" -> e.epic_key
      [] OTHER -> None

\* the key an issue event names for its ancestor of one level
AncestorKey(e, type) ==
    CASE type = "rfe" -> e.rfe_key
      [] type = "strat" -> e.strat_key
      [] type = "epic" -> e.epic_key
      [] OTHER -> None

\* the records the flow wrote below K: type, key and parent key of each
StreamedUnder(item_type, K) ==
    {<<events[n].type, events[n].key, ParentKey(events[n])>> :
        n \in {m \in 1..Len(events) :
                 events[m].type \in IssueTypes /\ AncestorKey(events[m], item_type) = K}}

\* the records nested in a node of level type: type, key and parent key of each
RECURSIVE Nested(_, _)
Nested(node, type) ==
    UNION {{<<Below(type), node.children[n].key, node.key>>}
              \cup Nested(node.children[n], Below(type)) : n \in 1..Len(node.children)}

\* the descendants in what reload_item answered
NestedIn(h, item_type) ==
    IF h.response.status = 200 THEN Nested(h.response.data[1], item_type) ELSE {}

\* the descendants reload_item returns for (item_type, K) from the known store
ReloadedUnder(item_type, K) ==
    NestedIn(reload_item([issue_key |-> K, item_type |-> item_type, pat |-> "tok",
                          JIRA_PAT |-> None],
                         [JIRA_PAT |-> None, down |-> {},
                          store |-> [issues |-> remote.issues, honours |-> TRUE]]),
             item_type)

\* the keys of the issues of one level the known store holds
HeldAt(type) ==
    {remote.issues[n].key : n \in {m \in 1..Len(remote.issues) : remote.issues[m].level = type}}

\* a flow has run alone over the known store and has written its complete
\* event; a Request can be reloaded against a request-first flow only
StreamedWhole(item_type) ==
    /\ phase = "solo"
    /\ Ended
    /\ Completed
    /\ item_type = "rfe" => mode = "rfe"

====
